---- MODULE Spec2Model ----
(***************************************************************************)
(* The pagination engine of payroc-sdk-js.                                 *)
(*                                                                         *)
(* Two pagers live in the source:                                          *)
(*   - the auth-refreshing pager (createPayrocPager, parseHttpResponse,    *)
(*     getLinkUri, cloneRequestWithNewUri), called "http" below;           *)
(*   - the generic pager with a pluggable parser (PayrocPager.create,      *)
(*     PayrocPager.parsePayrocResponse, ...), called "generic" below; its  *)
(*     static methods carry the prefix PayrocPager_.                       *)
(* The page fetcher and the auth provider are external: their results are  *)
(* inputs, drawn from small sets.                                          *)
(***************************************************************************)
EXTENDS Integers, Sequences, FiniteSets, TLC

\* ------------------------------------------------------------------ bounds

\* Longest links array of a response body.
MaxLinks == 2
\* Longest data array of a response body.
MaxItems == 1
\* Calls to the page fetcher in one behaviour (the initial one included).
MaxFetches == 3

\* ------------------------------------------------------------------ values

\* JavaScript's undefined, where a string-valued field may be missing.
Absent == "<undefined>"
\* A link href that is not a string (typeof href === "number").
NumberHref == "<number 7>"

NEXT_REL == "next"
PREVIOUS_REL == "previous"

\* JavaScript's null, as getLinkUri returns it.
Null == "<null>"

\* typeof v === "string"
IsString(v) == v \notin {Absent, Null, NumberHref}

\* All sequences over S of length at most n.
SeqUpTo(S, n) == UNION {[1..k -> S] : k \in 0..n}

Items == {"item1", "item2"}

Rels == {NEXT_REL, PREVIOUS_REL, "self"}

Hrefs == {"/items?page=1", "/items?page=2", "", Absent, NumberHref}

\* A link relation object of a response: { rel, href }.
Links == [rel : Rels, href : Hrefs]

\* A null where a link object should be: an element of links on which link.rel
\* cannot be read.
NullLink == [null |-> TRUE]

\* What a link extractor's loop ends in when it reads link.rel on a null element.
TypeError == "<TypeError>"

\* The TypeError's message.
TypeErrorMessage == "Cannot read properties of null (reading 'rel')"

\* The outcome of a parser that threw instead of returning.
ParserThrew == [threw |-> TypeErrorMessage]

\* Whether a call of the parser ended in an exception instead of a result.
ParserRaised(parsed) == "threw" \in DOMAIN parsed

\* json.data: missing, or an array of items.
DataValues ==
    {[kind |-> "undefined", arr |-> <<>>]}
        \cup {[kind |-> "array", arr |-> s] : s \in SeqUpTo(Items, MaxItems)}

\* json.links: missing, present but not an array, or an array of links.
LinksValues ==
    {[kind |-> "undefined", arr |-> <<>>], [kind |-> "object", arr |-> <<>>]}
        \cup {[kind |-> "array", arr |-> s] : s \in SeqUpTo(Links, MaxLinks)}

\* The decoded response bodies the page fetcher may deliver.
Bodies == [data : DataValues, links : LinksValues]

\* No request is stored (the field is undefined).
NoRequest == [undefined |-> TRUE]

\* The auth provider has not been asked yet.
NoAuth == [undefined |-> TRUE]

\* No header map.
NoHeaders == <<>>

\* Fetcher.Args: the request descriptors a caller starts a listing with.
InitialRequests ==
    { [url |-> "/items", method |-> "GET", headers |-> NoHeaders,
       timeoutMs |-> Absent, body |-> Absent, queryParameters |-> Absent],
      [url |-> "/items", method |-> "POST",
       headers |-> [n \in {"Authorization", "X-Custom-Header"} |->
                      IF n = "Authorization" THEN "Bearer static-token" ELSE "value"],
       timeoutMs |-> "5000", body |-> "payload",
       queryParameters |-> "filter=active&sort=name"] }

\* The authorization headers the auth provider may hand out, or its failure.
AuthResults ==
    { [ok |-> TRUE, headers |-> [n \in {"Authorization"} |-> "Bearer token-1"]],
      [ok |-> TRUE, headers |-> [n \in {"Authorization"} |-> "Bearer token-2"]],
      [ok |-> FALSE, error |-> "auth provider failed"] }

\* Fetcher.Error values of a failed fetch.
FetchErrors ==
    { [reason |-> "status-code", statusCode |-> 500],
      [reason |-> "timeout"] }

\* APIResponse: what the page fetcher resolves to.
FailedResponses == {[ok |-> FALSE, error |-> e] : e \in FetchErrors}

\* The raw response names the URL that was fetched.
OkResponse(body, request) ==
    [ok |-> TRUE, body |-> body, rawResponse |-> [status |-> 200, url |-> request.url]]

\* ------------------------------------------------------------ headers.js

\* key.toLowerCase() on the header names in use.
toLowerCase(key) ==
    CASE key = "Authorization" -> "authorization"
      [] key = "X-Custom-Header" -> "x-custom-header"
      [] OTHER -> key

\* A header map with its keys lower-cased.
LowerKeys(h) ==
    [n \in {toLowerCase(k) : k \in DOMAIN h} |->
        h[CHOOSE k \in DOMAIN h : toLowerCase(k) = n]]

\* mergeOnlyDefinedHeaders(h): the defined entries of h under lower-cased keys.
mergeOnlyDefinedHeaders(h) ==
    LET l == LowerKeys(h)
    IN  [n \in {k \in DOMAIN l : l[k] # Absent} |-> l[n]]

\* mergeHeaders(h1, h2): both maps under lower-cased keys, h2 taking precedence.
mergeHeaders(h1, h2) ==
    LET l1 == LowerKeys(h1)
        l2 == LowerKeys(h2)
    IN  [n \in DOMAIN l1 \cup DOMAIN l2 |-> IF n \in DOMAIN l2 THEN l2[n] ELSE l1[n]]

\* ------------------------------------- the auth-refreshing pager's parser

\* json.data ?? []
OrEmpty(v) == IF v.kind = "array" THEN v.arr ELSE <<>>

\* The loop of getLinkUri from index i on.
RECURSIVE getLinkUriFrom(_, _, _)
getLinkUriFrom(links, rel, i) ==
    IF i > Len(links) THEN Null
    ELSE IF links[i] = NullLink THEN TypeError
    ELSE IF links[i].rel = rel /\ IsString(links[i].href) /\ Len(links[i].href) > 0
         THEN links[i].href
         ELSE getLinkUriFrom(links, rel, i + 1)

\* A link extractor that takes the first link of the rel whose href is a string,
\* the empty string included.
getLinkUri_AcceptsEmptyHref(json, rel) ==
    IF json.links.kind # "array" THEN Null
    ELSE LET arr == json.links.arr
             I == {i \in 1..Len(arr) : arr[i].rel = rel /\ IsString(arr[i].href)}
         IN  IF I = {} THEN Null ELSE arr[CHOOSE i \in I : \A j \in I : i <= j].href

getLinkUri(json, rel) ==
    IF json.links.kind # "array" THEN Null ELSE getLinkUriFrom(json.links.arr, rel, 1)

\* A clone that rebuilds the request from the new URL and the headers only.
cloneRequestWithNewUri_FromUrlOnly(request, newUri) ==
    [url |-> newUri, method |-> "GET", headers |-> request.headers,
     timeoutMs |-> Absent, body |-> Absent, queryParameters |-> Absent]

cloneRequestWithNewUri(request, newUri) ==
    [request EXCEPT !.url = newUri, !.queryParameters = Absent]

\* prevUri ? ... : undefined -- the truthiness of a string-or-null
Truthy(uri) == uri \notin {Null, Absent, ""}

\* A parser that takes a response without a data field for the end of the listing.
parseHttpResponse_StopsAtMissingData(request, json) ==
    LET prevUri == getLinkUri(json, PREVIOUS_REL)
        nextUri == getLinkUri(json, NEXT_REL)
        more == json.data.kind = "array"
    IN  [ nextRequest |-> IF Truthy(nextUri) /\ more
                            THEN cloneRequestWithNewUri(request, nextUri) ELSE NoRequest,
          hasNextPage |-> nextUri # Null /\ more,
          previousRequest |-> IF Truthy(prevUri)
                                THEN cloneRequestWithNewUri(request, prevUri) ELSE NoRequest,
          hasPreviousPage |-> prevUri # Null,
          items |-> OrEmpty(json.data) ]

\* A parser that tests the link URI against undefined only (nextUri !== undefined),
\* which the null of getLinkUri passes.
parseHttpResponse_StrictUndefined(request, json) ==
    LET prevUri == getLinkUri(json, PREVIOUS_REL)
        nextUri == getLinkUri(json, NEXT_REL)
    IN  [ nextRequest |-> IF Truthy(nextUri)
                            THEN cloneRequestWithNewUri(request, nextUri) ELSE NoRequest,
          hasNextPage |-> nextUri # Absent,
          previousRequest |-> IF Truthy(prevUri)
                                THEN cloneRequestWithNewUri(request, prevUri) ELSE NoRequest,
          hasPreviousPage |-> prevUri # Absent,
          items |-> OrEmpty(json.data) ]

parseHttpResponse(request, json) ==
    LET prevUri == getLinkUri(json, PREVIOUS_REL)
        nextUri == getLinkUri(json, NEXT_REL)
    IN  IF TypeError \in {prevUri, nextUri} THEN ParserThrew ELSE
        [ nextRequest |-> IF Truthy(nextUri)
                            THEN cloneRequestWithNewUri(request, nextUri) ELSE NoRequest,
          hasNextPage |-> nextUri # Null,
          previousRequest |-> IF Truthy(prevUri)
                                THEN cloneRequestWithNewUri(request, prevUri) ELSE NoRequest,
          hasPreviousPage |-> prevUri # Null,
          items |-> OrEmpty(json.data) ]

\* ---------------------------------------------- the generic pager's parsers

\* The loop of PayrocPager.getLinkUri from index i on.
RECURSIVE PayrocPager_getLinkUriFrom(_, _, _)
PayrocPager_getLinkUriFrom(links, rel, i) ==
    IF i > Len(links) THEN Absent
    ELSE IF links[i] = NullLink THEN TypeError
    ELSE IF links[i].rel = rel THEN links[i].href
         ELSE PayrocPager_getLinkUriFrom(links, rel, i + 1)

PayrocPager_getLinkUri(response, rel) ==
    IF response.links.kind # "array" THEN Absent
    ELSE PayrocPager_getLinkUriFrom(response.links.arr, rel, 1)

\* Requests are objects here, so the typeof request === "object" branch is taken.
PayrocPager_cloneRequestWithNewUri(request, newUri) ==
    [request EXCEPT !.url = newUri]

parsePayrocResponse(request, response) ==
    LET prevUri == PayrocPager_getLinkUri(response, PREVIOUS_REL)
        hasPreviousPage == prevUri \notin {Absent, Null} /\ prevUri # ""
        nextUri == PayrocPager_getLinkUri(response, NEXT_REL)
        hasNextPage == nextUri \notin {Absent, Null} /\ nextUri # ""
    IN  IF TypeError \in {prevUri, nextUri} THEN ParserThrew ELSE
        [ nextRequest |-> IF hasNextPage
                            THEN PayrocPager_cloneRequestWithNewUri(request, nextUri)
                            ELSE NoRequest,
          hasNextPage |-> hasNextPage,
          previousRequest |-> IF hasPreviousPage
                                THEN PayrocPager_cloneRequestWithNewUri(request, prevUri)
                                ELSE NoRequest,
          hasPreviousPage |-> hasPreviousPage,
          items |-> [kind |-> "array", arr |-> OrEmpty(response.data)] ]

\* Caller-supplied parser for a backend whose first link, whatever its rel, leads
\* to the next page and which has no backward links.
customParserFirstLink(request, response) ==
    LET links == IF response.links.kind = "array" THEN response.links.arr ELSE <<>>
        uri == IF Len(links) > 0 /\ links[1] # NullLink THEN links[1].href ELSE Absent
        hasNextPage == IsString(uri) /\ uri # ""
    IN  IF Len(links) > 0 /\ links[1] = NullLink
        THEN [threw |-> "Cannot read properties of null (reading 'href')"] ELSE
        [ nextRequest |-> IF hasNextPage THEN [request EXCEPT !.url = uri] ELSE NoRequest,
          hasNextPage |-> hasNextPage,
          previousRequest |-> NoRequest,
          hasPreviousPage |-> FALSE,
          items |-> response.data ]

\* Caller-supplied parser that reports availability without building requests.
customParserFlagsOnly(request, response) ==
    [ nextRequest |-> NoRequest,
      hasNextPage |-> response.links.kind = "array" /\ Len(response.links.arr) > 0,
      previousRequest |-> NoRequest,
      hasPreviousPage |-> FALSE,
      items |-> response.data ]

\* The parsers a generic pager can be created with (args.parse, or the default).
Parsers == {"default", "firstLink", "flagsOnly"}

\* args.parse ?? PayrocPager.createDefaultParser()
createDefaultParser(request, response) == parsePayrocResponse(request, response)

\* this.parser(request, { data, rawResponse })
ApplyParser(p, request, response) ==
    CASE p = "firstLink" -> customParserFirstLink(request, response)
      [] p = "flagsOnly" -> customParserFlagsOnly(request, response)
      [] OTHER -> createDefaultParser(request, response)

\* ------------------------------------------------------------------- state

VARIABLES
    impl,              \* "none" until a pager exists, then "http" or "generic"
    parser,            \* the generic pager's parser
    authProvider,      \* whether clientOptions.authProvider is set
    initialRequest,    \* the request the listing started with
    response,          \* PayrocPager.response
    rawResponse,       \* PayrocPager.rawResponse
    data,              \* PayrocPager.data
    _hasNextPage,
    _hasPreviousPage,
    nextRequest,
    previousRequest,
    server,            \* the remote service behind the page fetcher
    fetchCalls,        \* calls made to the page fetcher
    authCalls,         \* calls made to authProvider.getAuthRequest
    lastAuth,          \* what authProvider.getAuthRequest answered last
    lastFetch,         \* the latest call to the page fetcher: its request and result
    parserCalls,       \* the parser invocations made for the latest fetch
    lastCall,          \* the latest call on the engine and how it ended
    iter,              \* the item sequence (for await ... of pager), if one exists
    yielded,           \* the items the item sequence has handed to its consumer
    pageSeq,           \* the page sequence (getNextPages / getPreviousPages), if one exists
    calls,             \* the calls started one await at a time: where each has got to
    otherIter          \* a second item sequence of the same pager, with the items it gave

pageState ==
    <<response, rawResponse, data, _hasNextPage, _hasPreviousPage, nextRequest,
      previousRequest>>

config == <<impl, parser, authProvider, initialRequest>>

iterVars == <<iter, yielded, pageSeq, otherIter>>

vars ==
    <<config, pageState, server, fetchCalls, authCalls, lastAuth, lastFetch, parserCalls,
      lastCall, iterVars, calls>>

NoResponse == [undefined |-> TRUE]

\* A call that ended normally, and one that threw.
Returned(op) == [op |-> op, error |-> ""]
Threw(op, message) == [op |-> op, error |-> message]

\* A reason text that is the failure's reason field whatever its kind.
FailureReason_ReasonOnly(error) == error.reason

\* The reason text of a failed fetch.
FailureReason(error) ==
    IF error.reason = "status-code"
    THEN "HTTP " \o ToString(error.statusCode)
    ELSE error.reason

\* ------------------------------------------------------------ the service

\* Pages of a chain-shaped service.
MaxPages == 3

\* The URL of page i of a chain-shaped service.
PageUrl(i) == "/items?page=" \o ToString(i)

\* Page i of a chain-shaped service of n pages: a link back unless it is the
\* first, a link on unless it is the last (to page 1 again when cyclic).
ChainPage(d, i, n, cyclic) ==
    LET prev == IF i > 1
                THEN <<[rel |-> PREVIOUS_REL, href |-> PageUrl(i - 1)]>> ELSE <<>>
        next == IF i < n THEN <<[rel |-> NEXT_REL, href |-> PageUrl(i + 1)]>>
                ELSE IF cyclic THEN <<[rel |-> NEXT_REL, href |-> PageUrl(1)]>>
                ELSE <<>>
    IN  [data |-> d, links |-> [kind |-> "array", arr |-> prev \o next]]

\* The data page i of a chain-shaped service may carry: none, or an item of its
\* own followed by one that every page repeats.
PageData(i) ==
    { [kind |-> "undefined", arr |-> <<>>],
      [kind |-> "array", arr |-> <<"item-of-page-" \o ToString(i), "repeated-item">>] }

\* The services whose pages form a chain of up to MaxPages pages, each page with
\* or without data, and those whose pages (all with data) form a cycle.
ChainServers ==
    UNION { { [kind |-> "chain", cyclic |-> FALSE, start |-> 1, reliable |-> FALSE,
               pages |-> [i \in 1..n |-> ChainPage(ds[i], i, n, FALSE)]] :
                 ds \in {f \in [1..n -> UNION {PageData(i) : i \in 1..n}] :
                           \A i \in 1..n : f[i] \in PageData(i)} }
            \cup
            { [kind |-> "chain", cyclic |-> TRUE, start |-> 1, reliable |-> FALSE,
               pages |-> [i \in 1..n |->
                   ChainPage(CHOOSE d \in PageData(i) : d.kind = "array", i, n, TRUE)]] }
          : n \in 1..MaxPages }

\* The chains that are not cyclic, the listing starting at any of their pages (the
\* initial URL addresses page start).
ChainServersFrom ==
    UNION { {[s EXCEPT !.start = k] : k \in 1..Len(s.pages)} :
              s \in {c \in ChainServers : ~c.cyclic} }

\* The same chains behind a page fetcher none of whose calls fails.
ReliableChainServers == {[s EXCEPT !.reliable = TRUE] : s \in ChainServersFrom}

\* A service that answers any request with any body of MockBodies (a mock queue).
MockServer == [kind |-> "mock"]

\* A service that answers any request with any body of Bodies.
AnyServer == [kind |-> "any"]

\* The bodies of MockServer: at most one link and at most one item each.
MockBodies ==
    {b \in Bodies : /\ Len(b.links.arr) <= 1
                    /\ \A i \in 1..Len(b.links.arr) : b.links.arr[i].rel # "self"
                    /\ b.data.arr \in {<<>>, <<"item1">>}}

\* A service whose bodies may hold a null where a link object should be.
MalformedServer == [kind |-> "malformed"]

\* The links of MalformedServer's bodies: a next link, a previous link, or null.
MalformedLinks ==
    {NullLink, [rel |-> NEXT_REL, href |-> "/items?page=2"],
     [rel |-> PREVIOUS_REL, href |-> "/items?page=1"]}

\* The bodies of MalformedServer: with or without data, up to two links.
MalformedBodies ==
    [data : {[kind |-> "undefined", arr |-> <<>>], [kind |-> "array", arr |-> <<"item1">>]},
     links : {[kind |-> "array", arr |-> s] : s \in SeqUpTo(MalformedLinks, 2)}]

\* The page of a chain-shaped service a URL addresses (0: none).
PageIndex(url) ==
    IF url = "/items" THEN server.start
    ELSE IF \E i \in 1..Len(server.pages) : PageUrl(i) = url
         THEN CHOOSE i \in 1..Len(server.pages) : PageUrl(i) = url
         ELSE 0

\* The page fetcher: what sendRequest(request) can resolve to.
sendRequest(request) ==
    (IF server.kind = "chain" /\ server.reliable THEN {} ELSE FailedResponses) \cup
        IF server.kind = "any"
        THEN {OkResponse(b, request) : b \in Bodies}
        ELSE IF server.kind = "mock"
        THEN {OkResponse(b, request) : b \in MockBodies}
        ELSE IF server.kind = "malformed"
        THEN {OkResponse(b, request) : b \in MalformedBodies}
        ELSE IF PageIndex(request.url) > 0
             THEN {OkResponse(server.pages[PageIndex(request.url)], request)}
             ELSE {}

\* ------------------------------------------------------------ construction

\* new PayrocPager(args) of the auth-refreshing pager.
PayrocPager(args) ==
    /\ response' = args.response
    /\ rawResponse' = args.rawResponse
    /\ data' = args.items
    /\ _hasNextPage' = args.hasNextPage
    /\ _hasPreviousPage' = args.hasPreviousPage
    /\ nextRequest' = args.nextRequest
    /\ previousRequest' = args.previousRequest

\* new PayrocPager(args) of the generic pager.
PayrocPager_constructor(args) ==
    /\ response' = args.response
    /\ rawResponse' = args.rawResponse
    /\ data' = OrEmpty(args.items)
    /\ _hasNextPage' = args.hasNextPage
    /\ _hasPreviousPage' = args.hasPreviousPage
    /\ nextRequest' = args.nextRequest
    /\ previousRequest' = args.previousRequest

\* The page fetcher was called with request and resolved to res.
Fetched(request, res) ==
    /\ fetchCalls' = fetchCalls + 1
    /\ lastFetch' = [request |-> request, result |-> res]

\* The parser p was invoked with the request and the response body.
Parsed(p, request, res) ==
    parserCalls' = <<[parser |-> p, request |-> request, response |-> res.body]>>

\* The fetch failed: no parser was invoked for it.
NotParsed == parserCalls' = <<>>

\* A construction that, when the initial fetch fails, tries once more before it
\* gives up.
createPayrocPager_Retries(initialHttpRequest, auth) ==
    /\ impl = "none"
    /\ fetchCalls < MaxFetches
    /\ \E res \in sendRequest(initialHttpRequest) :
          /\ IF ~res.ok
             THEN /\ fetchCalls + 1 < MaxFetches
                  /\ fetchCalls' = fetchCalls + 2
                  /\ lastFetch' = [request |-> initialHttpRequest, result |-> res]
                  /\ NotParsed
                  /\ lastCall' = Threw("createPayrocPager",
                        "Failed to fetch initial page: " \o FailureReason(res.error))
                  /\ UNCHANGED <<pageSeq, config, pageState, otherIter>>
             ELSE LET parsed == parseHttpResponse(initialHttpRequest, res.body)
                  IN  /\ Fetched(initialHttpRequest, res)
                      /\ Parsed("parseHttpResponse", initialHttpRequest, res)
                      /\ PayrocPager([response |-> res.body,
                                      rawResponse |-> res.rawResponse,
                                      items |-> parsed.items,
                                      hasNextPage |-> parsed.hasNextPage,
                                      hasPreviousPage |-> parsed.hasPreviousPage,
                                      nextRequest |-> parsed.nextRequest,
                                      previousRequest |-> parsed.previousRequest])
                      /\ impl' = "http"
                      /\ authProvider' = auth
                      /\ initialRequest' = initialHttpRequest
                      /\ lastCall' = Returned("createPayrocPager")
                      /\ UNCHANGED parser
    /\ UNCHANGED <<server, calls, authCalls, lastAuth, iterVars>>

createPayrocPager(initialHttpRequest, auth) ==
    /\ impl = "none"
    /\ fetchCalls < MaxFetches
    /\ \E res \in sendRequest(initialHttpRequest) :
          /\ Fetched(initialHttpRequest, res)
          /\ IF res.ok THEN Parsed("parseHttpResponse", initialHttpRequest, res)
             ELSE NotParsed
          /\ IF ~res.ok
             THEN /\ lastCall' = Threw("createPayrocPager",
                        "Failed to fetch initial page: " \o FailureReason(res.error))
                  /\ UNCHANGED <<pageSeq, config, pageState, otherIter>>
             ELSE LET parsed == parseHttpResponse(initialHttpRequest, res.body)
                  IN  IF parsed = ParserThrew
                      THEN /\ lastCall' = Threw("createPayrocPager", TypeErrorMessage)
                           /\ UNCHANGED <<pageSeq, config, pageState, otherIter>>
                      ELSE
                      /\ PayrocPager([response |-> res.body,
                                      rawResponse |-> res.rawResponse,
                                      items |-> parsed.items,
                                      hasNextPage |-> parsed.hasNextPage,
                                      hasPreviousPage |-> parsed.hasPreviousPage,
                                      nextRequest |-> parsed.nextRequest,
                                      previousRequest |-> parsed.previousRequest])
                      /\ impl' = "http"
                      /\ authProvider' = auth
                      /\ initialRequest' = initialHttpRequest
                      /\ lastCall' = Returned("createPayrocPager")
                      /\ UNCHANGED parser
    /\ UNCHANGED <<server, calls, authCalls, lastAuth, iterVars>>

\* PayrocPager.create(args): a rejected sendRequest rejects the creation.
PayrocPager_create(initialReq, parse) ==
    /\ impl = "none"
    /\ fetchCalls < MaxFetches
    /\ \E res \in sendRequest(initialReq) :
          /\ Fetched(initialReq, res)
          /\ IF res.ok THEN Parsed(parse, initialReq, res) ELSE NotParsed
          /\ IF ~res.ok
             THEN /\ lastCall' = Threw("create", FailureReason(res.error))
                  /\ UNCHANGED <<pageSeq, config, pageState, otherIter>>
             ELSE LET parsed == ApplyParser(parse, initialReq, res.body)
                  IN  IF ParserRaised(parsed)
                      THEN /\ lastCall' = Threw("create", parsed.threw)
                           /\ UNCHANGED <<pageSeq, config, pageState, otherIter>>
                      ELSE
                      /\ PayrocPager_constructor([response |-> res.body,
                                      rawResponse |-> res.rawResponse,
                                      items |-> parsed.items,
                                      hasNextPage |-> parsed.hasNextPage,
                                      hasPreviousPage |-> parsed.hasPreviousPage,
                                      nextRequest |-> parsed.nextRequest,
                                      previousRequest |-> parsed.previousRequest])
                      /\ impl' = "generic"
                      /\ parser' = parse
                      /\ initialRequest' = initialReq
                      /\ lastCall' = Returned("create")
                      /\ UNCHANGED authProvider
    /\ UNCHANGED <<server, calls, authCalls, lastAuth, iterVars>>

\* ------------------------------------------------------------- transitions

\* A merge in which the headers already on the request win over the refreshed ones.
refreshAuthorization_KeepsExisting(request, authRequest) ==
    [request EXCEPT !.headers =
        mergeHeaders(mergeOnlyDefinedHeaders(authRequest.headers), request.headers)]

\* A refresh that replaces the request's headers by the auth provider's.
refreshAuthorization_ReplacesHeaders(request, authRequest) ==
    [request EXCEPT !.headers = mergeOnlyDefinedHeaders(authRequest.headers)]

\* The request as sent once the auth provider's headers are merged into it.
refreshAuthorization(request, authRequest) ==
    [request EXCEPT !.headers =
        mergeHeaders(request.headers, mergeOnlyDefinedHeaders(authRequest.headers))]

\* A failure path that has already dropped the current page's items.
throwFailedToFetchPage_DropsData(op, res) ==
    /\ lastCall' = Threw(op, "Failed to fetch page: " \o FailureReason(res.error))
    /\ data' = <<>>
    /\ UNCHANGED <<response, rawResponse, _hasNextPage, _hasPreviousPage, nextRequest,
                   previousRequest>>

\* A failure path that keeps the failure to itself: the call returns as if nothing
\* had happened.
throwFailedToFetchPage_Swallows(op, res) ==
    /\ lastCall' = Returned(op)
    /\ UNCHANGED pageState

\* if (!response.ok) throw new Error(`Failed to fetch page: ${reason}`)
throwFailedToFetchPage(op, res) ==
    /\ lastCall' = Threw(op, "Failed to fetch page: " \o FailureReason(res.error))
    /\ UNCHANGED pageState

\* A state update that never takes the next-page flag back.
handleResponse_KeepsNextFlag(op, res, parsed) ==
    /\ response' = res.body
    /\ rawResponse' = res.rawResponse
    /\ data' = parsed.items
    /\ _hasNextPage' = (_hasNextPage \/ parsed.hasNextPage)
    /\ _hasPreviousPage' = parsed.hasPreviousPage
    /\ nextRequest' = parsed.nextRequest
    /\ previousRequest' = parsed.previousRequest
    /\ lastCall' = Returned(op)

\* A state update that appends the new page's items to those already held.
handleResponse_Accumulates(op, res, parsed) ==
    /\ response' = res.body
    /\ rawResponse' = res.rawResponse
    /\ data' = data \o parsed.items
    /\ _hasNextPage' = parsed.hasNextPage
    /\ _hasPreviousPage' = parsed.hasPreviousPage
    /\ nextRequest' = parsed.nextRequest
    /\ previousRequest' = parsed.previousRequest
    /\ lastCall' = Returned(op)

\* A state update that keeps the previous follow-up request when the new page
\* has none.
handleResponse_KeepsPrevious(op, res, parsed) ==
    /\ response' = res.body
    /\ rawResponse' = res.rawResponse
    /\ data' = parsed.items
    /\ _hasNextPage' = parsed.hasNextPage
    /\ _hasPreviousPage' = parsed.hasPreviousPage
    /\ nextRequest' = parsed.nextRequest
    /\ previousRequest' = IF parsed.previousRequest = NoRequest THEN previousRequest
                          ELSE parsed.previousRequest
    /\ lastCall' = Returned(op)

\* The assignments that end sendRequestAndHandleResponse.
handleResponse(op, res, parsed) ==
    IF parsed = ParserThrew
    THEN /\ lastCall' = Threw(op, TypeErrorMessage)
         /\ UNCHANGED pageState
    ELSE /\ response' = res.body
         /\ rawResponse' = res.rawResponse
         /\ data' = parsed.items
         /\ _hasNextPage' = parsed.hasNextPage
         /\ _hasPreviousPage' = parsed.hasPreviousPage
         /\ nextRequest' = parsed.nextRequest
         /\ previousRequest' = parsed.previousRequest
         /\ lastCall' = Returned(op)

\* A transition that, when the auth provider fails, sends the stored request as it is.
sendRequestAndHandleResponse_SendsWithoutAuth(op, request) ==
    \E auth \in AuthResults :
        LET sent == IF authProvider /\ auth.ok THEN refreshAuthorization(request, auth)
                    ELSE request
        IN  /\ fetchCalls < MaxFetches
            /\ authCalls' = IF authProvider THEN authCalls + 1 ELSE authCalls
            /\ lastAuth' = IF authProvider THEN auth ELSE lastAuth
            /\ \E res \in sendRequest(sent) :
                  /\ Fetched(sent, res)
                  /\ IF res.ok THEN Parsed("parseHttpResponse", sent, res) ELSE NotParsed
                  /\ IF ~res.ok
                     THEN throwFailedToFetchPage(op, res)
                     ELSE handleResponse(op, res, parseHttpResponse(sent, res.body))

\* A transition that merges the refreshed headers into the stored follow-up request
\* itself, so that the stored request is the one that was sent.
sendRequestAndHandleResponse_MergesInPlace(op, request) ==
    \E auth \in AuthResults :
        IF authProvider /\ ~auth.ok
        THEN /\ authCalls < MaxFetches
             /\ authCalls' = authCalls + 1
             /\ lastAuth' = auth
             /\ lastCall' = Threw(op, auth.error)
             /\ UNCHANGED <<pageState, fetchCalls, lastFetch, parserCalls>>
        ELSE LET sent == IF authProvider THEN refreshAuthorization(request, auth)
                         ELSE request
             IN  /\ fetchCalls < MaxFetches
                 /\ authCalls' = IF authProvider THEN authCalls + 1 ELSE authCalls
                 /\ lastAuth' = IF authProvider THEN auth ELSE lastAuth
                 /\ \E res \in sendRequest(sent) :
                       /\ Fetched(sent, res)
                       /\ IF res.ok THEN Parsed("parseHttpResponse", sent, res)
                          ELSE NotParsed
                       /\ IF ~res.ok
                          THEN /\ lastCall' = Threw(op, "Failed to fetch page: "
                                                        \o FailureReason(res.error))
                               /\ nextRequest' = IF op = "getPreviousPage"
                                                 THEN nextRequest ELSE sent
                               /\ previousRequest' = IF op = "getPreviousPage"
                                                     THEN sent ELSE previousRequest
                               /\ UNCHANGED <<response, rawResponse, data, _hasNextPage,
                                              _hasPreviousPage>>
                          ELSE handleResponse(op, res, parseHttpResponse(sent, res.body))

\* sendRequestAndHandleResponse of the auth-refreshing pager.
sendRequestAndHandleResponse(op, request) ==
    \E auth \in AuthResults :
        IF authProvider /\ ~auth.ok
        THEN /\ authCalls < MaxFetches
             /\ authCalls' = authCalls + 1
             /\ lastAuth' = auth
             /\ lastCall' = Threw(op, auth.error)
             /\ UNCHANGED <<pageState, fetchCalls, lastFetch, parserCalls>>
        ELSE LET sent == IF authProvider THEN refreshAuthorization(request, auth)
                         ELSE request
             IN  /\ fetchCalls < MaxFetches
                 /\ authCalls' = IF authProvider THEN authCalls + 1 ELSE authCalls
                 /\ lastAuth' = IF authProvider THEN auth ELSE lastAuth
                 /\ \E res \in sendRequest(sent) :
                       /\ Fetched(sent, res)
                       /\ IF res.ok THEN Parsed("parseHttpResponse", sent, res)
                          ELSE NotParsed
                       /\ IF ~res.ok
                          THEN throwFailedToFetchPage(op, res)
                          ELSE handleResponse(op, res, parseHttpResponse(sent, res.body))

\* The assignments that end the generic pager's sendRequestAndHandleResponse.
\* A handler that stores the body and the raw response before it awaits the parser.
PayrocPager_handleResponse_StoresBeforeParsing(op, res, parsed) ==
    IF ParserRaised(parsed)
    THEN /\ lastCall' = Threw(op, parsed.threw)
         /\ response' = res.body
         /\ rawResponse' = res.rawResponse
         /\ UNCHANGED <<data, _hasNextPage, _hasPreviousPage, nextRequest, previousRequest>>
    ELSE /\ response' = res.body
         /\ rawResponse' = res.rawResponse
         /\ data' = OrEmpty(parsed.items)
         /\ _hasNextPage' = parsed.hasNextPage
         /\ _hasPreviousPage' = parsed.hasPreviousPage
         /\ nextRequest' = parsed.nextRequest
         /\ previousRequest' = parsed.previousRequest
         /\ lastCall' = Returned(op)

PayrocPager_handleResponse(op, res, parsed) ==
    IF ParserRaised(parsed)
    THEN /\ lastCall' = Threw(op, parsed.threw)
         /\ UNCHANGED pageState
    ELSE /\ response' = res.body
         /\ rawResponse' = res.rawResponse
         /\ data' = OrEmpty(parsed.items)
         /\ _hasNextPage' = parsed.hasNextPage
         /\ _hasPreviousPage' = parsed.hasPreviousPage
         /\ nextRequest' = parsed.nextRequest
         /\ previousRequest' = parsed.previousRequest
         /\ lastCall' = Returned(op)

\* A transition that parses with the default parser whatever parser the pager
\* was created with.
PayrocPager_sendRequestAndHandleResponse_DefaultParser(op, request) ==
    /\ fetchCalls < MaxFetches
    /\ UNCHANGED <<authCalls, lastAuth>>
    /\ \E res \in sendRequest(request) :
          /\ Fetched(request, res)
          /\ IF res.ok THEN Parsed("default", request, res) ELSE NotParsed
          /\ IF ~res.ok
             THEN /\ lastCall' = Threw(op, FailureReason(res.error))
                  /\ UNCHANGED pageState
             ELSE PayrocPager_handleResponse(op, res,
                                             ApplyParser("default", request, res.body))

\* sendRequestAndHandleResponse of the generic pager: a rejected sendRequest
\* rejects the call before anything is assigned.
PayrocPager_sendRequestAndHandleResponse(op, request) ==
    /\ fetchCalls < MaxFetches
    /\ UNCHANGED <<authCalls, lastAuth>>
    /\ \E res \in sendRequest(request) :
          /\ Fetched(request, res)
          /\ IF res.ok THEN Parsed(parser, request, res) ELSE NotParsed
          /\ IF ~res.ok
             THEN /\ lastCall' = Threw(op, FailureReason(res.error))
                  /\ UNCHANGED pageState
             ELSE PayrocPager_handleResponse(op, res,
                                             ApplyParser(parser, request, res.body))

\* The transition of whichever pager was created.
Transition(op, request) ==
    IF impl = "http"
    THEN sendRequestAndHandleResponse(op, request)
    ELSE PayrocPager_sendRequestAndHandleResponse(op, request)

\* A usage error raised only after the auth provider has been asked.
UsageError_AfterRefresh(op, message) ==
    /\ authCalls < MaxFetches
    /\ authCalls' = authCalls + 1
    /\ lastAuth' \in {a \in AuthResults : a.ok}
    /\ lastCall' = Threw(op, message)
    /\ UNCHANGED <<pageState, fetchCalls, lastFetch, parserCalls>>

\* A usage error raised only after the request has gone out.
UsageError_AfterSending(op, message) ==
    /\ fetchCalls < MaxFetches
    /\ fetchCalls' = fetchCalls + 1
    /\ lastCall' = Threw(op, message)
    /\ UNCHANGED <<pageState, authCalls, lastAuth, lastFetch, parserCalls>>

\* A usage error: the call throws before anything is sent.
UsageError(op, message) ==
    /\ lastCall' = Threw(op, message)
    /\ UNCHANGED <<pageState, fetchCalls, authCalls, lastAuth, lastFetch, parserCalls>>

hasNextPage == _hasNextPage

hasPreviousPage == _hasPreviousPage

getCurrentPage == data

\* The body of getNextPage, called by op (the caller, or the item sequence).
getNextPageBody(op) ==
    IF ~_hasNextPage \/ nextRequest = NoRequest
    THEN UsageError(op, "No next page available")
    ELSE Transition(op, nextRequest)

\* The body of getPreviousPage.
getPreviousPageBody(op) ==
    IF ~_hasPreviousPage \/ previousRequest = NoRequest
    THEN UsageError(op, "No previous page available")
    ELSE Transition(op, previousRequest)

\* The caller awaits pager.getNextPage(). A caller awaits one call at a time, so
\* none is made while a next() of the item sequence is pending.
getNextPage ==
    /\ impl # "none"
    /\ iter.state # "running"
    /\ getNextPageBody("getNextPage")
    /\ UNCHANGED <<config, server, calls, iterVars>>

\* The caller awaits pager.getPreviousPage().
getPreviousPage ==
    /\ impl # "none"
    /\ iter.state # "running"
    /\ getPreviousPageBody("getPreviousPage")
    /\ UNCHANGED <<config, server, calls, iterVars>>

\* ---------------------------------------------------------- item sequence

\* No item sequence has been asked for.
NoIter == [state |-> "none"]

\* pager[Symbol.asyncIterator](): a generator object whose body has not started.
\* fetchesAtStart is the number of fetches made by then; fetches counts those the
\* sequence makes, demanded the pages that were current while a next() was pending.
asyncIterator ==
    /\ impl # "none"
    /\ iter = NoIter
    /\ iter' = [state |-> "created", batch |-> <<>>, pos |-> 0, fetches |-> 0,
                demanded |-> 0, fetchesAtStart |-> fetchCalls]
    /\ yielded' = <<>>
    /\ UNCHANGED <<pageSeq, config, pageState, server, calls, fetchCalls, authCalls, lastAuth, lastFetch, parserCalls, lastCall, otherIter>>

\* An item sequence that starts behind the items of the page that is current.
iterNext_SkipsCurrentPage ==
    /\ iter.state \in {"created", "suspended"}
    /\ iter' = IF iter.state = "created"
               THEN [iter EXCEPT !.state = "running", !.batch = data, !.pos = Len(data),
                                 !.demanded = 1]
               ELSE [iter EXCEPT !.state = "running"]
    /\ UNCHANGED <<pageSeq, config, pageState, server, calls, fetchCalls, authCalls, lastAuth, lastFetch, parserCalls, lastCall,
                   yielded, otherIter>>

\* The consumer calls next() on the item sequence: the generator resumes. The first
\* call starts iterMessages, whose for-of loop takes hold of this.data.
iterNext ==
    /\ iter.state \in {"created", "suspended"}
    /\ iter' = IF iter.state = "created"
               THEN [iter EXCEPT !.state = "running", !.batch = data, !.pos = 0,
                                 !.demanded = 1]
               ELSE [iter EXCEPT !.state = "running"]
    /\ UNCHANGED <<pageSeq, config, pageState, server, calls, fetchCalls, authCalls, lastAuth, lastFetch, parserCalls, lastCall,
                   yielded, otherIter>>

\* iterMessages, inside a batch: yield item.
iterYield ==
    /\ iter.state = "running"
    /\ iter.pos < Len(iter.batch)
    /\ iter' = [iter EXCEPT !.state = "suspended", !.pos = iter.pos + 1]
    /\ yielded' = Append(yielded, iter.batch[iter.pos + 1])
    /\ UNCHANGED <<pageSeq, config, pageState, server, calls, fetchCalls, authCalls, lastAuth, lastFetch, parserCalls, lastCall, otherIter>>

\* An item sequence that fetches the next page as soon as it has handed out the
\* last item of a batch, before the consumer asks for more.
iterMessages_Prefetches ==
    /\ iter.state = "suspended"
    /\ iter.pos = Len(iter.batch)
    /\ hasNextPage
    /\ getNextPageBody("iterMessages")
    /\ iter' = IF lastCall'.error = ""
               THEN [iter EXCEPT !.batch = data', !.pos = 0,
                                 !.fetches = iter.fetches + (fetchCalls' - fetchCalls)]
               ELSE [iter EXCEPT !.state = "failed",
                                 !.fetches = iter.fetches + (fetchCalls' - fetchCalls)]
    /\ UNCHANGED <<pageSeq, config, server, calls, yielded, otherIter>>

\* An item sequence that ends quietly when a transition fails.
iterMessages_SwallowsFailure ==
    /\ iter.state = "running"
    /\ iter.pos = Len(iter.batch)
    /\ hasNextPage
    /\ getNextPageBody("iterMessages")
    /\ iter' = IF lastCall'.error = ""
               THEN [iter EXCEPT !.batch = data', !.pos = 0,
                                 !.fetches = iter.fetches + (fetchCalls' - fetchCalls),
                                 !.demanded = iter.demanded + 1]
               ELSE [iter EXCEPT !.state = "done",
                                 !.fetches = iter.fetches + (fetchCalls' - fetchCalls)]
    /\ UNCHANGED <<pageSeq, config, server, calls, yielded, otherIter>>

\* An item sequence that, at the end of the listing, goes back along the previous
\* links.
iterMessages_AlsoGoesBack ==
    /\ iter.state = "running"
    /\ iter.pos = Len(iter.batch)
    /\ IF hasNextPage THEN getNextPageBody("iterMessages")
       ELSE hasPreviousPage /\ getPreviousPageBody("iterMessages")
    /\ iter' = IF lastCall'.error = ""
               THEN [iter EXCEPT !.batch = data', !.pos = 0,
                                 !.fetches = iter.fetches + (fetchCalls' - fetchCalls),
                                 !.demanded = iter.demanded + 1]
               ELSE [iter EXCEPT !.state = "failed",
                                 !.fetches = iter.fetches + (fetchCalls' - fetchCalls)]
    /\ UNCHANGED <<pageSeq, config, server, calls, yielded, otherIter>>

\* An item sequence that keeps its own place in the listing: with its batch
\* exhausted it fetches the page after the one the batch came from, whatever page
\* the pager is on by then.
iterMessages_KeepsOwnPlace ==
    /\ iter.state = "running"
    /\ iter.pos = Len(iter.batch)
    /\ LET k == CHOOSE i \in 1..Len(server.pages) : server.pages[i].data.arr = iter.batch
       IN  /\ k < Len(server.pages)
           /\ Transition("iterMessages",
                         [initialRequest EXCEPT !.url = PageUrl(k + 1),
                                                !.queryParameters = Absent])
    /\ iter' = IF lastCall'.error = ""
               THEN [iter EXCEPT !.batch = data', !.pos = 0,
                                 !.fetches = iter.fetches + (fetchCalls' - fetchCalls),
                                 !.demanded = iter.demanded + 1]
               ELSE [iter EXCEPT !.state = "failed",
                                 !.fetches = iter.fetches + (fetchCalls' - fetchCalls)]
    /\ UNCHANGED <<pageSeq, config, server, calls, yielded, otherIter>>

\* iterMessages / getNextPages, the batch exhausted and hasNextPage() true:
\* await this.getNextPage(), then go on with this.data; a throw ends the sequence.
iterMessages ==
    /\ iter.state = "running"
    /\ iter.pos = Len(iter.batch)
    /\ hasNextPage
    /\ getNextPageBody("iterMessages")
    /\ iter' = IF lastCall'.error = ""
               THEN [iter EXCEPT !.batch = data', !.pos = 0,
                                 !.fetches = iter.fetches + (fetchCalls' - fetchCalls),
                                 !.demanded = iter.demanded + 1]
               ELSE [iter EXCEPT !.state = "failed",
                                 !.fetches = iter.fetches + (fetchCalls' - fetchCalls)]
    /\ UNCHANGED <<pageSeq, config, server, calls, yielded, otherIter>>

\* An item sequence that remembers the pages it has been through and ends when
\* the next link leads to one of them.
iterDone_StopsAtVisitedPage ==
    /\ iter.state = "running"
    /\ iter.pos = Len(iter.batch)
    /\ \/ ~hasNextPage
       \/ /\ nextRequest # NoRequest
          /\ PageIndex(nextRequest.url) > 0
          /\ \E j \in 1..Len(yielded) :
                yielded[j] \in {"item-of-page-" \o ToString(PageIndex(nextRequest.url))}
    /\ iter' = [iter EXCEPT !.state = "done"]
    /\ UNCHANGED <<pageSeq, config, pageState, server, calls, fetchCalls, authCalls,
                   lastAuth, lastFetch, parserCalls, lastCall, yielded, otherIter>>

\* iterMessages, the batch exhausted and hasNextPage() false: the sequence ends.
iterDone ==
    /\ iter.state = "running"
    /\ iter.pos = Len(iter.batch)
    /\ ~hasNextPage
    /\ iter' = [iter EXCEPT !.state = "done"]
    /\ UNCHANGED <<pageSeq, config, pageState, server, calls, fetchCalls, authCalls, lastAuth, lastFetch, parserCalls, lastCall,
                   yielded, otherIter>>

\* pager[Symbol.asyncIterator]() once more, the sequence before it consumed to its
\* end: a new generator object over the same pager. consumed is what the earlier
\* sequence yielded.
asyncIteratorAgain ==
    /\ iter.state = "done"
    /\ "consumed" \notin DOMAIN iter
    /\ iter' = [state |-> "created", batch |-> <<>>, pos |-> 0, fetches |-> 0,
                demanded |-> 0, fetchesAtStart |-> fetchCalls, consumed |-> yielded]
    /\ yielded' = <<>>
    /\ UNCHANGED <<pageSeq, config, pageState, server, calls, fetchCalls, authCalls,
                   lastAuth, lastFetch, parserCalls, lastCall, otherIter>>

\* --------------------------------------- a second item sequence of the pager

\* pager[Symbol.asyncIterator]() called once more on the same pager: a second
\* generator object, which holds nothing but its own place in iterMessages.
otherAsyncIterator ==
    /\ impl # "none"
    /\ otherIter = NoIter
    /\ otherIter' = [state |-> "created", batch |-> <<>>, pos |-> 0, fetches |-> 0,
                     yielded |-> <<>>]
    /\ UNCHANGED <<config, pageState, server, calls, fetchCalls, authCalls, lastAuth, lastFetch,
                   parserCalls, lastCall, iter, yielded, pageSeq>>

\* The consumer calls next() on the second sequence, no pull of the first being
\* pending. The first call starts iterMessages, which takes hold of this.data.
otherNext ==
    /\ otherIter.state \in {"created", "suspended"}
    /\ iter.state # "running"
    /\ otherIter' = IF otherIter.state = "created"
                    THEN [otherIter EXCEPT !.state = "running", !.batch = data, !.pos = 0]
                    ELSE [otherIter EXCEPT !.state = "running"]
    /\ UNCHANGED <<config, pageState, server, calls, fetchCalls, authCalls, lastAuth, lastFetch,
                   parserCalls, lastCall, iter, yielded, pageSeq>>

\* iterMessages of the second sequence, inside a batch: yield item.
otherYield ==
    /\ otherIter.state = "running"
    /\ otherIter.pos < Len(otherIter.batch)
    /\ otherIter' = [otherIter EXCEPT
                        !.state = "suspended", !.pos = otherIter.pos + 1,
                        !.yielded = Append(otherIter.yielded,
                                           otherIter.batch[otherIter.pos + 1])]
    /\ UNCHANGED <<config, pageState, server, calls, fetchCalls, authCalls, lastAuth, lastFetch,
                   parserCalls, lastCall, iter, yielded, pageSeq>>

\* A second sequence that keeps its own place in the listing: with its batch
\* exhausted it fetches the page after the one the batch came from.
otherMessages_KeepsOwnPlace ==
    /\ otherIter.state = "running"
    /\ otherIter.pos = Len(otherIter.batch)
    /\ LET k == CHOOSE i \in 1..Len(server.pages) :
                    server.pages[i].data.arr = otherIter.batch
       IN  /\ k < Len(server.pages)
           /\ Transition("iterMessages",
                         [initialRequest EXCEPT !.url = PageUrl(k + 1),
                                                !.queryParameters = Absent])
    /\ otherIter' = IF lastCall'.error = ""
                    THEN [otherIter EXCEPT !.batch = data', !.pos = 0,
                                           !.fetches = otherIter.fetches + 1]
                    ELSE [otherIter EXCEPT !.state = "failed",
                                           !.fetches = otherIter.fetches + 1]
    /\ UNCHANGED <<config, server, calls, iter, yielded, pageSeq>>

\* iterMessages / getNextPages of the second sequence, its batch exhausted and
\* hasNextPage() true: await this.getNextPage() on the one pager, then go on with
\* this.data; a throw ends the sequence.
otherMessages ==
    /\ otherIter.state = "running"
    /\ otherIter.pos = Len(otherIter.batch)
    /\ hasNextPage
    /\ getNextPageBody("iterMessages")
    /\ otherIter' = IF lastCall'.error = ""
                    THEN [otherIter EXCEPT !.batch = data', !.pos = 0,
                                           !.fetches = otherIter.fetches
                                                         + (fetchCalls' - fetchCalls)]
                    ELSE [otherIter EXCEPT !.state = "failed",
                                           !.fetches = otherIter.fetches
                                                         + (fetchCalls' - fetchCalls)]
    /\ UNCHANGED <<config, server, calls, iter, yielded, pageSeq>>

\* getNextPages of the second sequence, hasNextPage() false: the sequence ends.
otherDone ==
    /\ otherIter.state = "running"
    /\ otherIter.pos = Len(otherIter.batch)
    /\ ~hasNextPage
    /\ otherIter' = [otherIter EXCEPT !.state = "done"]
    /\ UNCHANGED <<config, pageState, server, calls, fetchCalls, authCalls, lastAuth, lastFetch,
                   parserCalls, lastCall, iter, yielded, pageSeq>>

\* ----------------------------------------------------------------- queries

\* A call that returned value.
ReturnedValue(op, value) == [op |-> op, error |-> "", value |-> value]

\* A getCurrentPage that hands the list out and leaves the pager without it.
getCurrentPageCall_TakesList ==
    /\ impl # "none"
    /\ lastCall' = ReturnedValue("getCurrentPage", getCurrentPage)
    /\ data' = <<>>
    /\ UNCHANGED <<config, response, rawResponse, _hasNextPage, _hasPreviousPage,
                   nextRequest, previousRequest, server, calls, fetchCalls, authCalls, lastAuth,
                   lastFetch, parserCalls, iterVars>>

\* The caller calls pager.getCurrentPage().
getCurrentPageCall ==
    /\ impl # "none"
    /\ lastCall' = ReturnedValue("getCurrentPage", getCurrentPage)
    /\ UNCHANGED <<config, pageState, server, calls, fetchCalls, authCalls, lastAuth, lastFetch, parserCalls,
                   iterVars>>

\* The caller calls pager.hasNextPage().
hasNextPageCall ==
    /\ impl # "none"
    /\ lastCall' = ReturnedValue("hasNextPage", hasNextPage)
    /\ UNCHANGED <<config, pageState, server, calls, fetchCalls, authCalls, lastAuth, lastFetch, parserCalls,
                   iterVars>>

\* The caller calls pager.hasPreviousPage().
hasPreviousPageCall ==
    /\ impl # "none"
    /\ lastCall' = ReturnedValue("hasPreviousPage", hasPreviousPage)
    /\ UNCHANGED <<config, pageState, server, calls, fetchCalls, authCalls, lastAuth, lastFetch, parserCalls,
                   iterVars>>

\* ---------------------------------------------------------- page sequence

NoSeq == [state |-> "none"]

\* The generator object getNextPages() or getPreviousPages() returns; its body has
\* not started. fetches counts the fetches the sequence makes.
PageSequence(dir) ==
    /\ impl # "none"
    /\ pageSeq = NoSeq
    /\ iter = NoIter
    /\ pageSeq' = [state |-> "open", dir |-> dir, batches |-> <<>>, fetches |-> 0,
                   fetchesAtStart |-> fetchCalls]
    /\ UNCHANGED <<config, pageState, server, calls, fetchCalls, authCalls, lastAuth, lastFetch, parserCalls,
                   lastCall, iter, yielded, otherIter>>

getNextPages == PageSequence("next")

getPreviousPages == PageSequence("previous")

\* A page sequence that hands out the list that was current before the transition.
pagesNext_YieldsStaleBatch ==
    /\ pageSeq.state = "open"
    /\ IF (IF pageSeq.dir = "next" THEN ~hasNextPage ELSE ~hasPreviousPage)
       THEN /\ pageSeq' = [pageSeq EXCEPT !.state = "done"]
            /\ UNCHANGED <<pageState, fetchCalls, authCalls, lastAuth, lastFetch, parserCalls, lastCall>>
       ELSE /\ IF pageSeq.dir = "next" THEN getNextPageBody("getNextPages")
               ELSE getPreviousPageBody("getPreviousPages")
            /\ pageSeq' = IF lastCall'.error = ""
                          THEN [pageSeq EXCEPT !.batches = Append(@, data),
                                               !.fetches = @ + (fetchCalls' - fetchCalls)]
                          ELSE [pageSeq EXCEPT !.state = "failed",
                                               !.fetches = @ + (fetchCalls' - fetchCalls)]
    /\ UNCHANGED <<config, server, calls, iter, yielded, otherIter>>

\* The consumer calls next() on the page sequence: the loop tests the flag, awaits
\* the transition and yields this.data; a false flag ends the sequence, a throw
\* ends it with the error.
pagesNext ==
    /\ pageSeq.state = "open"
    /\ IF (IF pageSeq.dir = "next" THEN ~hasNextPage ELSE ~hasPreviousPage)
       THEN /\ pageSeq' = [pageSeq EXCEPT !.state = "done"]
            /\ UNCHANGED <<pageState, fetchCalls, authCalls, lastAuth, lastFetch, parserCalls, lastCall>>
       ELSE /\ IF pageSeq.dir = "next" THEN getNextPageBody("getNextPages")
               ELSE getPreviousPageBody("getPreviousPages")
            /\ pageSeq' = IF lastCall'.error = ""
                          THEN [pageSeq EXCEPT !.batches = Append(@, data'),
                                               !.fetches = @ + (fetchCalls' - fetchCalls)]
                          ELSE [pageSeq EXCEPT !.state = "failed",
                                               !.fetches = @ + (fetchCalls' - fetchCalls)]
    /\ UNCHANGED <<config, server, calls, iter, yielded, otherIter>>

\* ------------------------------------------------- calls, await by await

\* The callers of this part of the model: each starts one call.
Callers == {"first", "second"}

\* The call has been started and is suspended at an await of its transition.
InFlight(i) == calls[i].stage \in {"auth", "fetch", "parse"}

\* The calls that have settled (returned or thrown).
Settled == {i \in 1..Len(calls) : ~InFlight(i)}

\* A call record: the stored request it took, the request it sent, what came back,
\* the calls that were in flight when it started and the order in which it settled.
NewCall(op, stage, request, sent, error) ==
    [op |-> op, stage |-> stage, request |-> request, sent |-> sent,
     res |-> NoResponse, error |-> error,
     overlaps |-> {i \in 1..Len(calls) : InFlight(i)},
     settled |-> IF stage = "threw" THEN Cardinality(Settled) + 1 ELSE 0]

\* The call settles: its promise resolves or rejects.
Settle(i, stage, error) ==
    calls' = [calls EXCEPT ![i].stage = stage, ![i].error = error,
                           ![i].settled = Cardinality(Settled) + 1]

\* A pager that, when a transition starts, also sends the follow-up request of
\* the other direction so as to have that page ready.
startCall_FetchesBothDirections(op) ==
    LET unavailable == IF op = "getNextPage"
                       THEN ~_hasNextPage \/ nextRequest = NoRequest
                       ELSE ~_hasPreviousPage \/ previousRequest = NoRequest
        request == IF op = "getNextPage" THEN nextRequest ELSE previousRequest
        other == IF op = "getNextPage" THEN previousRequest ELSE nextRequest
        otherOp == IF op = "getNextPage" THEN "getPreviousPage" ELSE "getNextPage"
    IN  /\ impl # "none"
        /\ iter = NoIter /\ pageSeq = NoSeq
        /\ Len(calls) < Cardinality(Callers)
        /\ IF unavailable
           THEN /\ calls' = Append(calls, NewCall(op, "threw", NoRequest, NoRequest,
                                IF op = "getNextPage" THEN "No next page available"
                                ELSE "No previous page available"))
                /\ UsageError(op, IF op = "getNextPage" THEN "No next page available"
                                  ELSE "No previous page available")
           ELSE IF other # NoRequest /\ Len(calls) + 1 < Cardinality(Callers)
                   /\ fetchCalls + 1 < MaxFetches
           THEN /\ fetchCalls' = fetchCalls + 2
                /\ calls' = calls \o <<NewCall(op, "fetch", request, request, ""),
                                       NewCall(otherOp, "fetch", other, other, "")>>
                /\ UNCHANGED <<pageState, authCalls, lastAuth, lastFetch, parserCalls,
                               lastCall>>
           ELSE /\ fetchCalls < MaxFetches
                /\ fetchCalls' = fetchCalls + 1
                /\ calls' = Append(calls, NewCall(op, "fetch", request, request, ""))
                /\ UNCHANGED <<pageState, authCalls, lastAuth, lastFetch, parserCalls,
                               lastCall>>
        /\ UNCHANGED <<config, server, iterVars>>

\* pager.getNextPage() / pager.getPreviousPage() is called and runs to its first
\* await: the availability check, then getAuthRequest() if an auth provider is
\* configured, sendRequest(request) otherwise.
startCall(op) ==
    LET unavailable == IF op = "getNextPage"
                       THEN ~_hasNextPage \/ nextRequest = NoRequest
                       ELSE ~_hasPreviousPage \/ previousRequest = NoRequest
        request == IF op = "getNextPage" THEN nextRequest ELSE previousRequest
    IN  /\ impl # "none"
        /\ iter = NoIter /\ pageSeq = NoSeq
        /\ Len(calls) < Cardinality(Callers)
        /\ IF unavailable
           THEN /\ calls' = Append(calls, NewCall(op, "threw", NoRequest, NoRequest,
                                IF op = "getNextPage" THEN "No next page available"
                                ELSE "No previous page available"))
                /\ UsageError(op, IF op = "getNextPage" THEN "No next page available"
                                  ELSE "No previous page available")
           ELSE IF impl = "http" /\ authProvider
           THEN /\ authCalls < MaxFetches
                /\ authCalls' = authCalls + 1
                /\ calls' = Append(calls, NewCall(op, "auth", request, NoRequest, ""))
                /\ UNCHANGED <<pageState, fetchCalls, lastAuth, lastFetch, parserCalls,
                               lastCall>>
           ELSE /\ fetchCalls < MaxFetches
                /\ fetchCalls' = fetchCalls + 1
                /\ calls' = Append(calls, NewCall(op, "fetch", request, request, ""))
                /\ UNCHANGED <<pageState, authCalls, lastAuth, lastFetch, parserCalls,
                               lastCall>>
        /\ UNCHANGED <<config, server, iterVars>>

\* A transition that, when the auth provider fails, goes on and sends the stored
\* request without refreshed headers.
awaitGetAuthRequest_SendsAnyway(i) ==
    /\ calls[i].stage = "auth"
    /\ \E auth \in AuthResults :
          /\ lastAuth' = auth
          /\ fetchCalls < MaxFetches
          /\ fetchCalls' = fetchCalls + 1
          /\ calls' = [calls EXCEPT
                 ![i].stage = "fetch",
                 ![i].sent = IF auth.ok THEN refreshAuthorization(calls[i].request, auth)
                             ELSE calls[i].request]
          /\ UNCHANGED lastCall
    /\ UNCHANGED <<pageState, authCalls, lastFetch, parserCalls, config, server, iterVars>>

\* await getAuthRequest() resumes: a failure rejects the call, otherwise the
\* headers are merged and sendRequest(request) is called.
awaitGetAuthRequest(i) ==
    /\ calls[i].stage = "auth"
    /\ \E auth \in AuthResults :
          /\ lastAuth' = auth
          /\ IF ~auth.ok
             THEN /\ Settle(i, "threw", auth.error)
                  /\ lastCall' = Threw(calls[i].op, auth.error)
                  /\ UNCHANGED fetchCalls
             ELSE /\ fetchCalls < MaxFetches
                  /\ fetchCalls' = fetchCalls + 1
                  /\ calls' = [calls EXCEPT
                         ![i].stage = "fetch",
                         ![i].sent = refreshAuthorization(calls[i].request, auth)]
                  /\ UNCHANGED lastCall
    /\ UNCHANGED <<pageState, authCalls, lastFetch, parserCalls, config, server, iterVars>>

\* A transition that stores the response and the raw response as soon as the
\* fetch has come back, before it awaits the parser, and the parsed fields after.
awaitSendRequest_AssignsResponseEarly(i) ==
    /\ calls[i].stage = "fetch"
    /\ \E res \in sendRequest(calls[i].sent) :
          /\ lastFetch' = [request |-> calls[i].sent, result |-> res]
          /\ IF ~res.ok
             THEN /\ IF impl = "http"
                     THEN throwFailedToFetchPage(calls[i].op, res)
                     ELSE /\ lastCall' = Threw(calls[i].op, FailureReason(res.error))
                          /\ UNCHANGED pageState
                  /\ NotParsed
                  /\ Settle(i, "threw", lastCall'.error)
             ELSE /\ Parsed(IF impl = "http" THEN "parseHttpResponse" ELSE parser,
                            calls[i].sent, res)
                  /\ calls' = [calls EXCEPT ![i].stage = "parse", ![i].res = res]
                  /\ response' = res.body
                  /\ rawResponse' = res.rawResponse
                  /\ UNCHANGED <<data, _hasNextPage, _hasPreviousPage, nextRequest,
                                 previousRequest, lastCall>>
    /\ UNCHANGED <<fetchCalls, authCalls, lastAuth, config, server, iterVars>>

\* await sendRequest(request) resumes: a failure rejects the call, otherwise the
\* parser is called with the request sent and the response.
awaitSendRequest(i) ==
    /\ calls[i].stage = "fetch"
    /\ \E res \in sendRequest(calls[i].sent) :
          /\ lastFetch' = [request |-> calls[i].sent, result |-> res]
          /\ IF ~res.ok
             THEN /\ IF impl = "http"
                     THEN throwFailedToFetchPage(calls[i].op, res)
                     ELSE /\ lastCall' = Threw(calls[i].op, FailureReason(res.error))
                          /\ UNCHANGED pageState
                  /\ NotParsed
                  /\ Settle(i, "threw", lastCall'.error)
             ELSE /\ Parsed(IF impl = "http" THEN "parseHttpResponse" ELSE parser,
                            calls[i].sent, res)
                  /\ calls' = [calls EXCEPT ![i].stage = "parse", ![i].res = res]
                  /\ UNCHANGED <<pageState, lastCall>>
    /\ UNCHANGED <<fetchCalls, authCalls, lastAuth, config, server, iterVars>>

\* A transition that drops its result when a call it overlapped with has already
\* written its own: the first writer wins.
awaitParse_KeepsFirstWrite(i) ==
    /\ calls[i].stage = "parse"
    /\ IF \E j \in 1..Len(calls) :
             /\ calls[j].stage = "returned"
             /\ j \in calls[i].overlaps \/ i \in calls[j].overlaps
       THEN /\ lastCall' = Returned(calls[i].op)
            /\ UNCHANGED pageState
       ELSE IF impl = "http"
       THEN handleResponse(calls[i].op, calls[i].res,
                           parseHttpResponse(calls[i].sent, calls[i].res.body))
       ELSE PayrocPager_handleResponse(calls[i].op, calls[i].res,
                           ApplyParser(parser, calls[i].sent, calls[i].res.body))
    /\ Settle(i, IF lastCall'.error = "" THEN "returned" ELSE "threw", lastCall'.error)
    /\ UNCHANGED <<fetchCalls, authCalls, lastAuth, lastFetch, parserCalls, config, server,
                   iterVars>>

\* await parser(...) resumes: the assignments to Page State run to their end and
\* the call returns.
awaitParse(i) ==
    /\ calls[i].stage = "parse"
    /\ IF impl = "http"
       THEN handleResponse(calls[i].op, calls[i].res,
                           parseHttpResponse(calls[i].sent, calls[i].res.body))
       ELSE PayrocPager_handleResponse(calls[i].op, calls[i].res,
                           ApplyParser(parser, calls[i].sent, calls[i].res.body))
    /\ Settle(i, IF lastCall'.error = "" THEN "returned" ELSE "threw", lastCall'.error)
    /\ UNCHANGED <<fetchCalls, authCalls, lastAuth, lastFetch, parserCalls, config, server,
                   iterVars>>

\* A call resumes from the await it is suspended at.
Resume ==
    \E i \in 1..Len(calls) :
        \/ awaitGetAuthRequest(i)
        \/ awaitSendRequest(i)
        \/ awaitParse(i)

\* ----------------------------------------------------------- specification

InitWith(Servers) ==
    /\ impl = "none"
    /\ parser = "default"
    /\ authProvider = FALSE
    /\ initialRequest = NoRequest
    /\ response = NoResponse
    /\ rawResponse = NoResponse
    /\ data = <<>>
    /\ _hasNextPage = FALSE
    /\ _hasPreviousPage = FALSE
    /\ nextRequest = NoRequest
    /\ previousRequest = NoRequest
    /\ server \in Servers
    /\ fetchCalls = 0
    /\ authCalls = 0
    /\ lastAuth = NoAuth
    /\ lastFetch = [request |-> NoRequest, result |-> NoResponse]
    /\ parserCalls = <<>>
    /\ lastCall = Returned("none")
    /\ iter = NoIter
    /\ yielded = <<>>
    /\ pageSeq = NoSeq
    /\ calls = <<>>
    /\ otherIter = NoIter

Create ==
    \/ \E r \in InitialRequests, a \in BOOLEAN : createPayrocPager(r, a)
    \/ \E r \in InitialRequests, p \in Parsers : PayrocPager_create(r, p)

\* What a caller can do without the item sequence.
Navigate ==
    \/ Create
    \/ getNextPage
    \/ getPreviousPage

Next ==
    \/ Create
    \/ getNextPage
    \/ getPreviousPage
    \/ asyncIterator
    \/ iterNext
    \/ iterYield
    \/ iterMessages
    \/ iterDone

\* The engine against the chain-shaped services.
Init == InitWith(ChainServers)

Spec == Init /\ [][Next]_vars

\* Navigation against a service that may answer with any body of MockBodies.
InitMock == InitWith({MockServer})

SpecMock == InitMock /\ [][Navigate]_vars

\* A caller that creates a pager and consumes a page sequence, the listing
\* starting at any page of a chain.
NextPages ==
    \/ Create
    \/ getNextPages
    \/ getPreviousPages
    \/ pagesNext

InitPages == InitWith(ChainServersFrom)

SpecPages == InitPages /\ [][NextPages]_vars

\* Navigation and queries against the chain-shaped services.
NextQueries ==
    \/ Create
    \/ getNextPage
    \/ getPreviousPage
    \/ getCurrentPageCall
    \/ hasNextPageCall
    \/ hasPreviousPageCall

SpecQueries == Init /\ [][NextQueries]_vars

\* while (page.hasNextPage()) page = await page.getNextPage()
manualLoop ==
    /\ iter = NoIter
    /\ pageSeq = NoSeq
    /\ hasNextPage
    /\ getNextPage

\* A pager created without an auth provider and with the default parser.
CreateForLoop ==
    \/ \E r \in InitialRequests : createPayrocPager(r, FALSE)
    \/ \E r \in InitialRequests : PayrocPager_create(r, "default")

\* What the consumer of a whole listing does: the manual loop or the item sequence.
Consume ==
    \/ manualLoop
    \/ iterNext
    \/ iterYield
    \/ iterMessages
    \/ iterDone

NextLoop ==
    \/ CreateForLoop
    \/ asyncIterator
    \/ Consume

InitLoop == InitWith(ReliableChainServers)

\* A consumer that goes on as long as its loop has a step to take, against a page
\* fetcher that does not fail: an awaited call resolves and the loop resumes.
SpecLoop == InitLoop /\ [][NextLoop]_vars /\ WF_vars(Consume)

\* Construction alone, against a service that may answer with any body.
InitCreate == InitWith({AnyServer})

SpecCreate == InitCreate /\ [][Create]_vars

\* A pager with the default parsing of its implementation.
CreateDefault ==
    \/ \E r \in InitialRequests, a \in BOOLEAN : createPayrocPager(r, a)
    \/ \E r \in InitialRequests : PayrocPager_create(r, "default")

NextParse ==
    \/ CreateDefault
    \/ getNextPage
    \/ getPreviousPage

InitParse == InitWith({MalformedServer})

\* The default parsing of both pagers, at creation and in transitions, against a
\* service whose links arrays may hold null elements.
SpecParse == InitParse /\ [][NextParse]_vars

NextParsers ==
    \/ Create
    \/ getNextPage
    \/ getPreviousPage

\* Both pagers, the generic one with any of its parsers, against the service whose
\* links arrays may hold null elements: a parser can fail on a fetched body.
SpecParsers == InitParse /\ [][NextParsers]_vars

\* The chains every page of which has items.
RaceServers ==
    {s \in ChainServersFrom : \A i \in 1..Len(s.pages) : s.pages[i].data.kind = "array"
                                                         /\ s.pages[i].data.arr # <<>>}

\* An item sequence and direct transitions on the same pager, the caller making
\* its calls between two pulls.
NextInterleaved ==
    \/ CreateDefault
    \/ asyncIterator
    \/ iterNext
    \/ iterYield
    \/ iterMessages
    \/ iterDone
    \/ getNextPage
    \/ getPreviousPage

SpecInterleaved == InitWith(RaceServers) /\ [][NextInterleaved]_vars

\* The chains of RaceServers behind a page fetcher none of whose calls fails.
ReliableRaceServers == {[s EXCEPT !.reliable = TRUE] : s \in RaceServers}

\* Transitions made before any item sequence exists, then item sequences one after
\* the other, each pull awaited.
NextRestart ==
    \/ CreateForLoop
    \/ iter = NoIter /\ getNextPage
    \/ iter = NoIter /\ getPreviousPage
    \/ asyncIterator
    \/ asyncIteratorAgain
    \/ iterNext
    \/ iterYield
    \/ iterMessages
    \/ iterDone

SpecRestart == InitWith(ReliableRaceServers) /\ [][NextRestart]_vars

\* Two item sequences of one pager, each pull awaited before the next is made: a
\* sequence is resumed only while the other is not running.
NextShared ==
    \/ CreateForLoop
    \/ asyncIterator
    \/ otherAsyncIterator
    \/ otherIter.state # "running" /\ iterNext
    \/ iterYield
    \/ iterMessages
    \/ iterDone
    \/ otherNext
    \/ otherYield
    \/ otherMessages
    \/ otherDone

SpecShared == InitWith(RaceServers) /\ [][NextShared]_vars

\* Calls started whether or not the ones before have settled.
NextRace ==
    \/ CreateDefault
    \/ \E op \in {"getNextPage", "getPreviousPage"} : startCall(op)
    \/ Resume

InitRace == InitWith(RaceServers)

SpecRace == InitRace /\ [][NextRace]_vars

\* ------------------------------------------------------------------ claims

\* The texts a failed fetch is reported with.
ReasonTexts == {"HTTP 500", "timeout"}

\* message starts with prefix (and goes on with a reason text).
StartsWith(message, prefix) == \E r \in ReasonTexts : message = prefix \o ": " \o r

\* json carries a link with this rel whose href is a non-empty string.
HasLink(json, rel) ==
    /\ json.links.kind = "array"
    /\ \E i \in 1..Len(json.links.arr) :
          /\ json.links.arr[i].rel = rel
          /\ IsString(json.links.arr[i].href)
          /\ json.links.arr[i].href # ""

\* This step is a call of op on the engine (a call that changes nothing at all is
\* no step).
CallStep(op) ==
    /\ lastCall'.op = op
    /\ <<lastCall, fetchCalls, authCalls, lastFetch, pageState>>'
         # <<lastCall, fetchCalls, authCalls, lastFetch, pageState>>

\* C1: when the page fetcher returns a failure result for a transition of the
\* auth-refreshing pager, the call fails with an error that starts with "Failed to
\* fetch page" and every Page State field keeps the value it had before the call.
C1_FailedFetchKeepsPageState ==
    [][ (impl = "http" /\ fetchCalls' = fetchCalls + 1 /\ ~lastFetch'.result.ok)
          => /\ StartsWith(lastCall'.error, "Failed to fetch page")
             /\ UNCHANGED pageState ]_vars

\* C1 witness: a getNextPage whose fetch failed, the pager still on a page with
\* items and a next link.
C1_Witness ==
    /\ impl = "http"
    /\ lastCall = Threw("getNextPage", "Failed to fetch page: HTTP 500")
    /\ ~lastFetch.result.ok
    /\ Len(data) > 0
    /\ _hasNextPage

\* C2: getNextPage with hasNextPage() false fails with "No next page available",
\* getPreviousPage with hasPreviousPage() false fails with "No previous page
\* available"; neither issues a fetch, invokes the auth provider or changes Page State.
C2_NoSuchPage ==
    [][ /\ (CallStep("getNextPage") /\ ~hasNextPage)
            => /\ lastCall' = Threw("getNextPage", "No next page available")
               /\ fetchCalls' = fetchCalls
               /\ authCalls' = authCalls
               /\ UNCHANGED <<pageState, lastFetch>>
        /\ (CallStep("getPreviousPage") /\ ~hasPreviousPage)
            => /\ lastCall' = Threw("getPreviousPage", "No previous page available")
               /\ fetchCalls' = fetchCalls
               /\ authCalls' = authCalls
               /\ UNCHANGED <<pageState, lastFetch>> ]_vars

\* C2 witness: getNextPage was refused on a pager with an auth provider; only the
\* initial fetch was made and the provider was never invoked.
C2_Witness ==
    /\ impl = "http"
    /\ authProvider
    /\ lastCall = Threw("getNextPage", "No next page available")
    /\ ~hasNextPage
    /\ fetchCalls = 1
    /\ authCalls = 0

\* C3: after a successful getNextPage (getPreviousPage) of the auth-refreshing
\* pager, the fetcher was called with the follow-up request stored for that
\* direction (its headers refreshed when an auth provider is set), and response,
\* rawResponse, data, both flags and both follow-up requests come from the
\* response just received: data is its items, a flag is true exactly when it
\* carries that link, and a follow-up request is stored exactly then.
C3_SuccessfulTransition ==
    [][ ( /\ impl = "http"
          /\ CallStep("getNextPage") \/ CallStep("getPreviousPage")
          /\ lastCall'.error = "" )
          => LET stored == IF lastCall'.op = "getNextPage" THEN nextRequest
                           ELSE previousRequest
                 sent == lastFetch'.request
                 received == lastFetch'.result
             IN  /\ fetchCalls' = fetchCalls + 1
                 /\ [sent EXCEPT !.headers = NoHeaders]
                      = [stored EXCEPT !.headers = NoHeaders]
                 /\ ~authProvider => sent = stored
                 /\ received.ok
                 /\ response' = received.body
                 /\ rawResponse' = received.rawResponse
                 /\ data' = OrEmpty(received.body.data)
                 /\ _hasNextPage' = HasLink(received.body, NEXT_REL)
                 /\ _hasPreviousPage' = HasLink(received.body, PREVIOUS_REL)
                 /\ (nextRequest' # NoRequest) = HasLink(received.body, NEXT_REL)
                 /\ (previousRequest' # NoRequest) = HasLink(received.body, PREVIOUS_REL)
                 /\ nextRequest' # NoRequest
                      => \E i \in 1..Len(received.body.links.arr) :
                            /\ received.body.links.arr[i].rel = NEXT_REL
                            /\ nextRequest'.url = received.body.links.arr[i].href
                 /\ previousRequest' # NoRequest
                      => \E i \in 1..Len(received.body.links.arr) :
                            /\ received.body.links.arr[i].rel = PREVIOUS_REL
                            /\ previousRequest'.url = received.body.links.arr[i].href ]_vars

\* C3 witness: the second page of the specification's scenario, reached by
\* getNextPage: one item, a previous link and no next link.
C3_Witness ==
    /\ impl = "http"
    /\ lastCall = Returned("getNextPage")
    /\ fetchCalls = 2
    /\ data = <<"item1">>
    /\ ~hasNextPage
    /\ hasPreviousPage
    /\ previousRequest # NoRequest

\* The items of pages i..Len(pages), page after page.
RECURSIVE ConcatItems(_, _)
ConcatItems(pages, i) ==
    IF i > Len(pages) THEN <<>>
    ELSE OrEmpty(pages[i].data) \o ConcatItems(pages, i + 1)

\* The item sequence was created right after a construction that succeeded at once,
\* and every fetch since was its own.
IteratedFromConstruction ==
    /\ iter.state # "none"
    /\ iter.fetchesAtStart = 1
    /\ fetchCalls = 1 + iter.fetches

\* C4: against a service whose pages form a chain of n pages linked by next, the
\* item sequence created right after construction and consumed to its end has
\* yielded the pages' items in page order, repeated items included, and n fetch
\* calls were made in all.
C4_IterationYieldsChain ==
    ( /\ server.kind = "chain" /\ ~server.cyclic
      /\ impl = "http" \/ parser = "default"
      /\ IteratedFromConstruction
      /\ iter.state = "done" )
        => /\ yielded = ConcatItems(server.pages, 1)
           /\ fetchCalls = Len(server.pages)

\* C4 witness: three pages of two items each were consumed to the end with three
\* fetch calls.
C4_Witness ==
    /\ impl = "http"
    /\ server.kind = "chain" /\ ~server.cyclic
    /\ Len(server.pages) = 3
    /\ IteratedFromConstruction
    /\ iter.state = "done"
    /\ Len(yielded) = 6
    /\ fetchCalls = 3

\* C5: the item sequence fetches only on demand: it issues a fetch only while a
\* next() of the consumer is pending and every item of the batch in hand has been
\* yielded; while the consumer is not asking, no fetch is the sequence's; and the
\* fetches it has issued never exceed the pages that were current while a next()
\* was pending.
C5_NoFetchAheadOfDemand ==
    [][ /\ (fetchCalls' # fetchCalls /\ lastCall'.op = "iterMessages")
            => /\ iter.state = "running"
               /\ iter.pos = Len(iter.batch)
               /\ Len(yielded) >= Len(iter.batch)
               /\ SubSeq(yielded, Len(yielded) - Len(iter.batch) + 1, Len(yielded))
                    = iter.batch
        /\ (iter.state \in {"created", "suspended", "done", "failed"}
              /\ fetchCalls' # fetchCalls)
            => lastCall'.op # "iterMessages"
        /\ iter'.state # "none" => iter'.fetches <= iter'.demanded ]_vars

\* C5 witness: the consumer holds the first of the two items of the second page
\* and has not asked again; a third page exists and was not fetched.
C5_Witness ==
    /\ iter.state = "suspended"
    /\ IteratedFromConstruction
    /\ iter.fetches = 1
    /\ Len(iter.batch) = 2
    /\ iter.pos = 1
    /\ hasNextPage
    /\ fetchCalls = 2

\* The pager runs the standard link-relation parsing (the auth-refreshing pager,
\* or the generic pager without a caller-supplied parser).
DefaultParsing == impl = "http" \/ (impl = "generic" /\ parser = "default")

\* The items the pager's parser extracts from the response it holds.
ParsedItems ==
    IF impl = "http" THEN OrEmpty(response.data)
    ELSE OrEmpty(ApplyParser(parser, initialRequest, response).items)

\* C6: in every state of a pager, data is exactly the item list parsed from the
\* response it holds, the most recently successfully fetched one; it is never an
\* accumulation of the items of several pages.
C6_DataIsCurrentPage ==
    impl # "none" => data = ParsedItems

\* C6 witness: after the first page with its items, a transition has brought the
\* second page, and data holds the second page's two items only.
C6_Witness ==
    /\ impl # "none"
    /\ server.kind = "chain"
    /\ lastCall = Returned("getNextPage")
    /\ fetchCalls = 2
    /\ server.pages[1].data.kind = "array"
    /\ response = server.pages[2]
    /\ data = <<"item-of-page-2", "repeated-item">>

\* C7: in every state of a pager, with the default parser or a caller-supplied
\* one, hasNextPage() is true if and only if a next follow-up request is stored,
\* and hasPreviousPage() is true if and only if a previous one is stored.
C7_FlagIffRequestStored ==
    impl # "none" =>
        /\ hasNextPage <=> nextRequest # NoRequest
        /\ hasPreviousPage <=> previousRequest # NoRequest

\* The href of the first link of json with this rel and a non-empty string href.
FirstHref(json, rel) ==
    LET arr == json.links.arr
        I == {i \in 1..Len(arr) :
                arr[i].rel = rel /\ IsString(arr[i].href) /\ arr[i].href # ""}
    IN  arr[CHOOSE i \in I : \A j \in I : i <= j].href

\* C8: whenever the response held carries a next link whose href is a non-empty
\* string, hasNextPage() is true and the request getNextPage then sends has that
\* href as its URL and no query-parameter map, whatever the initial request
\* carried; likewise for previous.
C8_LinkHrefFollowed ==
    [][ DefaultParsing' =>
          /\ HasLink(response', NEXT_REL) => hasNextPage'
          /\ HasLink(response', PREVIOUS_REL) => hasPreviousPage'
          /\ ( /\ DefaultParsing /\ HasLink(response, NEXT_REL)
               /\ CallStep("getNextPage") /\ fetchCalls' = fetchCalls + 1 )
                => /\ lastFetch'.request.url = FirstHref(response, NEXT_REL)
                   /\ lastFetch'.request.queryParameters = Absent
          /\ ( /\ DefaultParsing /\ HasLink(response, PREVIOUS_REL)
               /\ CallStep("getPreviousPage") /\ fetchCalls' = fetchCalls + 1 )
                => /\ lastFetch'.request.url = FirstHref(response, PREVIOUS_REL)
                   /\ lastFetch'.request.queryParameters = Absent ]_vars

\* C9: every request the auth-refreshing pager has sent, the follow-up requests
\* of transitions in any direction included, has the method, the timeout and the
\* body of the initial request and, without an auth provider, its headers.
C9_FollowUpKeepsRequestProperties ==
    impl = "http" =>
        /\ lastFetch.request.method = initialRequest.method
        /\ lastFetch.request.timeoutMs = initialRequest.timeoutMs
        /\ lastFetch.request.body = initialRequest.body
        /\ ~authProvider => lastFetch.request.headers = initialRequest.headers

\* C9 witness: a listing started by a POST with static headers, a timeout, a body
\* and query parameters went forward and then back; the request sent last differs
\* from the initial one in its URL and its query-parameter map.
C9_Witness ==
    /\ impl = "http" /\ ~authProvider
    /\ initialRequest.method = "POST"
    /\ initialRequest.queryParameters # Absent
    /\ lastCall = Returned("getPreviousPage")
    /\ fetchCalls = 3
    /\ lastFetch.request.url # initialRequest.url
    /\ lastFetch.request.queryParameters = Absent
    /\ lastFetch.request.headers["Authorization"] = "Bearer static-token"

\* C10: whenever the response held has no links field, a links field that is not
\* an array, or an empty links array, both hasNextPage() and hasPreviousPage()
\* are false and neither follow-up request is stored.
C10_NoLinksNoPages ==
    (impl # "none" /\ (response.links.kind # "array" \/ response.links.arr = <<>>))
        => /\ ~hasNextPage /\ ~hasPreviousPage
           /\ nextRequest = NoRequest /\ previousRequest = NoRequest

\* C10 witness: a transition of the auth-refreshing pager has brought a response
\* whose links field is an object, not an array.
C10_Witness ==
    /\ impl = "http"
    /\ lastCall = Returned("getNextPage")
    /\ response.links.kind = "object"
    /\ ~hasNextPage /\ ~hasPreviousPage

\* Every link of json has an empty or absent href, or a rel that is neither next
\* nor previous.
OnlyUnusableLinks(json) ==
    /\ json.links.kind = "array"
    /\ json.links.arr # <<>>
    /\ \A i \in 1..Len(json.links.arr) :
          \/ json.links.arr[i].href \in {"", Absent}
          \/ json.links.arr[i].rel \notin {NEXT_REL, PREVIOUS_REL}

\* C11: a response whose links all have an empty or absent href or a rel other
\* than next and previous is accepted without an error and makes no page
\* available: hasNextPage() and hasPreviousPage() are both false.
C11_UnusableLinksIgnored ==
    (DefaultParsing /\ lastFetch.result.ok /\ OnlyUnusableLinks(lastFetch.result.body))
        => /\ response = lastFetch.result.body
           /\ lastCall.error = ""
           /\ ~hasNextPage /\ ~hasPreviousPage

\* C11 witness: the auth-refreshing pager was created from a response with a self
\* link to a page and a next link whose href is the empty string.
C11_Witness ==
    /\ impl = "http"
    /\ lastCall = Returned("createPayrocPager")
    /\ response.links.kind = "array"
    /\ response.links.arr = <<[rel |-> "self", href |-> "/items?page=1"],
                              [rel |-> NEXT_REL, href |-> ""]>>
    /\ ~hasNextPage /\ ~hasPreviousPage

\* The number of pages i..Len(pages) that carry a data field.
RECURSIVE PagesWithData(_, _)
PagesWithData(pages, i) ==
    IF i > Len(pages) THEN 0
    ELSE (IF pages[i].data.kind = "array" THEN 1 ELSE 0) + PagesWithData(pages, i + 1)

\* C12: a response without a data field is accepted, at construction and after a
\* transition, with data the empty list; the item sequence yields nothing for such
\* a page and goes on to the pages its next link leads to, down to the last one.
C12_MissingDataIsEmptyPage ==
    /\ (impl # "none" /\ lastFetch.result.ok
          /\ lastFetch.result.body.data.kind = "undefined")
         => /\ response = lastFetch.result.body
            /\ data = <<>>
    /\ ( /\ server.kind = "chain" /\ ~server.cyclic
         /\ DefaultParsing
         /\ IteratedFromConstruction
         /\ iter.state = "done"
         /\ \E i \in 1..Len(server.pages) : server.pages[i].data.kind = "undefined" )
         => /\ response = server.pages[Len(server.pages)]
            /\ fetchCalls = Len(server.pages)
            /\ Len(yielded) = 2 * PagesWithData(server.pages, 1)

\* C12 witness: of three pages the second has no data field; the item sequence
\* was consumed to its end and handed out the four items of the other two.
C12_Witness ==
    /\ impl = "http"
    /\ server.kind = "chain" /\ ~server.cyclic
    /\ Len(server.pages) = 3
    /\ server.pages[2].data.kind = "undefined"
    /\ IteratedFromConstruction
    /\ iter.state = "done"
    /\ Len(yielded) = 4
    /\ fetchCalls = 3

\* C13: with an auth provider, the request sent for a transition carries the
\* authorization header the provider returned during that transition, whatever
\* authorization header the stored follow-up request had (the initial request's
\* own, or one left by an earlier refresh); the initial request goes out with its
\* own headers.
C13_RefreshedAuthorizationSent ==
    /\ (impl = "http" /\ authProvider /\ lastAuth # NoAuth /\ lastAuth.ok)
         => /\ "authorization" \in DOMAIN lastFetch.request.headers
            /\ lastFetch.request.headers["authorization"] = lastAuth.headers["Authorization"]
    /\ (impl = "http" /\ authProvider /\ authCalls = 0)
         => lastFetch.request = initialRequest

\* C13 witness: the initial request had a static Authorization header; the first
\* transition went out with token-1, which the stored next request kept; the
\* second went out with token-2 and failed.
C13_Witness ==
    /\ impl = "http" /\ authProvider
    /\ initialRequest.headers # NoHeaders
    /\ authCalls = 2
    /\ fetchCalls = 3
    /\ StartsWith(lastCall.error, "Failed to fetch page")
    /\ nextRequest # NoRequest
    /\ "authorization" \in DOMAIN nextRequest.headers
    /\ nextRequest.headers["authorization"] = "Bearer token-1"
    /\ lastAuth.ok
    /\ lastFetch.request.headers["authorization"] = "Bearer token-2"

\* The calls that end in a usage error.
UsageErrors == {"No next page available", "No previous page available"}

\* C14: the auth provider is asked once per transition that passes the
\* availability check, and the fetch is made only with its answer in hand; it is
\* never asked by construction nor by a call refused with a usage error.
C14_RefreshOncePerTransition ==
    [][ /\ authCalls' \in {authCalls, authCalls + 1}
        /\ authCalls' = authCalls + 1
             => /\ impl = "http" /\ authProvider
                /\ lastCall'.op \in {"getNextPage", "getPreviousPage", "iterMessages"}
                /\ lastCall'.error \notin UsageErrors
                /\ IF lastAuth'.ok THEN fetchCalls' = fetchCalls + 1
                   ELSE fetchCalls' = fetchCalls
        /\ (impl = "http" /\ authProvider /\ fetchCalls' = fetchCalls + 1)
             => authCalls' = authCalls + 1 /\ lastAuth'.ok
        /\ lastCall'.error \in UsageErrors => authCalls' = authCalls ]_vars

\* C14 witness: construction and two successful transitions, forward and back,
\* with the provider asked twice.
C14_Witness ==
    /\ impl = "http" /\ authProvider
    /\ lastCall = Returned("getPreviousPage")
    /\ fetchCalls = 3
    /\ authCalls = 2

\* The request stored for the transition this step makes.
StoredRequestOf(op) == IF op = "getPreviousPage" THEN previousRequest ELSE nextRequest

\* A transition of the auth-refreshing pager with an auth provider sends a request.
RefreshedSend ==
    /\ impl = "http" /\ authProvider
    /\ fetchCalls' = fetchCalls + 1

\* The header names the auth provider returned, lower-cased.
RefreshedNames == {toLowerCase(k) : k \in DOMAIN lastAuth'.headers}

NoPager ==
    /\ impl = "none"
    /\ response = NoResponse /\ rawResponse = NoResponse
    /\ data = <<>>
    /\ ~_hasNextPage /\ ~_hasPreviousPage
    /\ nextRequest = NoRequest /\ previousRequest = NoRequest

ExpectedReason(error) ==
    CASE error = [reason |-> "status-code", statusCode |-> 500] -> "HTTP 500"
      [] error = [reason |-> "timeout"] -> "timeout"

\* The calls of the auth-refreshing pager that failed at the fetcher.
FetchFailureReported ==
    /\ lastCall.error \notin {""} \cup UsageErrors \cup {"auth provider failed"}
    /\ lastCall.op = "createPayrocPager" \/ impl = "http"

\* C17: the error of a failed fetch, at construction and at a transition, names
\* "HTTP <statusCode>" when the failure's reason is status-code and the reason
\* string itself otherwise.
C17_FailureReasonText ==
    FetchFailureReported
        => /\ ~lastFetch.result.ok
           /\ lastCall.error =
                (IF lastCall.op = "createPayrocPager"
                 THEN "Failed to fetch initial page: " ELSE "Failed to fetch page: ")
                    \o ExpectedReason(lastFetch.result.error)

\* C17 witness: a transition failed with status 500 and reported HTTP 500.
C17_Witness ==
    /\ impl = "http"
    /\ lastCall = Threw("getNextPage", "Failed to fetch page: HTTP 500")
    /\ lastFetch.result = [ok |-> FALSE,
                           error |-> [reason |-> "status-code", statusCode |-> 500]]

\* C18: when a transition made by the item sequence fails, the sequence ends with
\* that error at the pull that follows the last item of the page it was on (page
\* k); the consumer has received exactly the items of pages 1..k in order, none of
\* a later page, and the pager is left on page k.
C18_FailureSurfacesAtPageEnd ==
    /\ (lastCall.op = "iterMessages" /\ lastCall.error # "") => iter.state = "failed"
    /\ ( /\ iter.state = "failed"
         /\ server.kind = "chain" /\ ~server.cyclic
         /\ DefaultParsing
         /\ IteratedFromConstruction )
         => LET k == iter.demanded
            IN  /\ k < Len(server.pages)
                /\ yielded = ConcatItems(SubSeq(server.pages, 1, k), 1)
                /\ iter.batch = OrEmpty(server.pages[k].data)
                /\ iter.pos = Len(iter.batch)
                /\ response = server.pages[k]
                /\ data = OrEmpty(server.pages[k].data)

\* C18 witness: of three pages with two items each the item sequence handed out
\* the first two pages; its fetch of the third failed and ended it.
C18_Witness ==
    /\ impl = "http"
    /\ server.kind = "chain" /\ ~server.cyclic
    /\ Len(server.pages) = 3
    /\ IteratedFromConstruction
    /\ iter.state = "failed"
    /\ StartsWith(lastCall.error, "Failed to fetch page")
    /\ iter.demanded = 2
    /\ Len(yielded) = 4
    /\ fetchCalls = 3
    /\ response = server.pages[2]

\* The page sequence was created right after a construction that succeeded at
\* once, and every fetch since was its own.
PagesFromConstruction ==
    /\ pageSeq.state # "none"
    /\ pageSeq.fetchesAtStart = 1
    /\ fetchCalls = 1 + pageSeq.fetches

\* The page the j-th batch of the page sequence comes from.
BatchPage(j) == IF pageSeq.dir = "next" THEN server.start + j ELSE server.start - j

\* The pages that lie beyond the starting page in the sequence's direction.
FurtherPages ==
    IF pageSeq.dir = "next" THEN Len(server.pages) - server.start ELSE server.start - 1

\* C19: getNextPages (getPreviousPages) yields one batch per successful forward
\* (backward) transition, the data of the page just fetched; the page that was
\* current at the start is not among them; the sequence ends when the flag of its
\* direction is false, after as many batches as the chain has further pages in
\* that direction.
C19_PageBatches ==
    (DefaultParsing /\ PagesFromConstruction)
        => /\ Len(pageSeq.batches) <= FurtherPages
           /\ \A j \in 1..Len(pageSeq.batches) :
                 pageSeq.batches[j] = OrEmpty(server.pages[BatchPage(j)].data)
           /\ response = server.pages[BatchPage(Len(pageSeq.batches))]
           /\ pageSeq.state = "done"
                => /\ Len(pageSeq.batches) = FurtherPages
                   /\ IF pageSeq.dir = "next" THEN ~hasNextPage ELSE ~hasPreviousPage

\* C19 witness: the listing started at the third of three pages; getPreviousPages
\* was consumed to its end and yielded the second page's items, then the first's.
C19_Witness ==
    /\ impl = "http"
    /\ Len(server.pages) = 3 /\ server.start = 3
    /\ PagesFromConstruction
    /\ pageSeq.dir = "previous"
    /\ pageSeq.state = "done"
    /\ pageSeq.batches = << <<"item-of-page-2", "repeated-item">>,
                            <<"item-of-page-1", "repeated-item">> >>
    /\ fetchCalls = 3

\* The queries of a pager.
Queries == {"getCurrentPage", "hasNextPage", "hasPreviousPage"}

\* C20: getCurrentPage(), hasNextPage() and hasPreviousPage() make no fetch, do
\* not ask the auth provider and leave Page State as it is; getCurrentPage()
\* returns the list held in data, the same list at every call made with no
\* transition in between.
C20_QueriesArePure ==
    [][ /\ lastCall'.op \in Queries
          => /\ UNCHANGED <<pageState, fetchCalls, authCalls, lastAuth, lastFetch>>
             /\ lastCall'.error = ""
             /\ lastCall'.op = "getCurrentPage" => lastCall'.value = data'
             /\ lastCall'.op = "hasNextPage" => lastCall'.value = _hasNextPage'
             /\ lastCall'.op = "hasPreviousPage" => lastCall'.value = _hasPreviousPage'
        /\ (lastCall.op = "getCurrentPage" /\ lastCall'.op \in Queries)
          => data' = lastCall.value ]_vars

\* C20 witness: on the second page with its two items, getCurrentPage() returned
\* them; so far two fetches were made.
C20_Witness ==
    /\ impl = "http" /\ authProvider
    /\ fetchCalls = 2 /\ authCalls = 1
    /\ lastCall = ReturnedValue("getCurrentPage", <<"item-of-page-2", "repeated-item">>)
    /\ data = <<"item-of-page-2", "repeated-item">>

\* C21 as stated: getNextPage throws the usage error exactly when hasNextPage() is
\* false at the call; when it is true the call enters the transition (asks the
\* auth provider or the fetcher) and reports no usage error; likewise for
\* getPreviousPage.
C21_UsageErrorIffFlagFalse ==
    [][ /\ CallStep("getNextPage")
          => /\ lastCall'.error = "No next page available" <=> ~hasNextPage
             /\ hasNextPage
                  => (fetchCalls' = fetchCalls + 1 \/ authCalls' = authCalls + 1)
        /\ CallStep("getPreviousPage")
          => /\ lastCall'.error = "No previous page available" <=> ~hasPreviousPage
             /\ hasPreviousPage
                  => (fetchCalls' = fetchCalls + 1 \/ authCalls' = authCalls + 1) ]_vars

\* The index of the page the pager is on.
CurrentPageIndex == CHOOSE i \in 1..Len(server.pages) : server.pages[i] = response

\* C22: on a finite chain whose last page has no next link, with every fetch
\* succeeding, each transition moves the pager one page on, hasNextPage() is false
\* exactly on the last page, and both the manual loop and the item sequence come
\* to their end: hasNextPage() becomes false, the sequence is done.
C22_LoopsTerminate ==
    /\ [](impl # "none"
            => /\ \E i \in 1..Len(server.pages) : server.pages[i] = response
               /\ CurrentPageIndex = server.start + fetchCalls - 1
               /\ ~hasNextPage <=> CurrentPageIndex = Len(server.pages))
    /\ (impl # "none") ~> ~hasNextPage
    /\ (iter.state = "created") ~> (iter.state = "done")

\* C22 witness: the manual loop has gone from the first of three pages to the
\* third with two transitions and finds hasNextPage() false.
C22_Witness ==
    /\ impl = "http"
    /\ iter = NoIter
    /\ server.start = 1 /\ Len(server.pages) = 3
    /\ lastCall = Returned("getNextPage")
    /\ fetchCalls = 3
    /\ response = server.pages[3]
    /\ ~hasNextPage

\* The availability check of the call passes: the flag is true and a follow-up
\* request is stored.
AvailabilityPasses(op) ==
    IF op = "getPreviousPage" THEN _hasPreviousPage /\ previousRequest # NoRequest
    ELSE _hasNextPage /\ nextRequest # NoRequest

\* The auth refresh of this step, if the pager has one to make, succeeds.
AuthRefreshSucceeds ==
    (impl = "http" /\ authProvider) => (authCalls' = authCalls + 1 /\ lastAuth'.ok)

\* C23: a call of getNextPage or getPreviousPage makes one fetch when its
\* availability check passes and the auth refresh succeeds, none otherwise, never
\* more; and a fetch that fails makes the call fail.
C23_NoRetryNoSwallow ==
    [][ \A op \in {"getNextPage", "getPreviousPage"} :
          CallStep(op)
            => /\ fetchCalls' \in {fetchCalls, fetchCalls + 1}
               /\ fetchCalls' = fetchCalls + 1
                    <=> (AvailabilityPasses(op) /\ AuthRefreshSucceeds)
               /\ (fetchCalls' = fetchCalls + 1 /\ ~lastFetch'.result.ok)
                    => /\ lastCall'.error # ""
                       /\ lastCall'.error \notin UsageErrors ]_vars

\* C23 witness: a getPreviousPage whose auth refresh succeeded and whose one
\* fetch came back with status 500 has failed.
C23_Witness ==
    /\ impl = "http" /\ authProvider
    /\ lastCall = Threw("getPreviousPage", "Failed to fetch page: HTTP 500")
    /\ lastAuth.ok
    /\ ~lastFetch.result.ok
    /\ fetchCalls = 2 /\ authCalls = 1

\* C24: when the auth provider fails in a transition, the call fails with the
\* provider's failure, no fetch is made for it, and Page State is as before.
C24_AuthFailureStopsTransition ==
    [][ (authCalls' = authCalls + 1 /\ ~lastAuth'.ok)
          => /\ lastCall'.op \in {"getNextPage", "getPreviousPage", "iterMessages"}
             /\ lastCall'.error = lastAuth'.error
             /\ fetchCalls' = fetchCalls
             /\ UNCHANGED <<pageState, lastFetch>> ]_vars

\* C24 witness: on a page with a next page, getNextPage failed with the auth
\* provider's failure; only the initial fetch was made and the next request is
\* still stored.
C24_Witness ==
    /\ impl = "http" /\ authProvider
    /\ lastCall = Threw("getNextPage", "auth provider failed")
    /\ lastAuth = [ok |-> FALSE, error |-> "auth provider failed"]
    /\ fetchCalls = 1 /\ authCalls = 1
    /\ hasNextPage /\ nextRequest # NoRequest
    /\ lastFetch.request = initialRequest

\* C25: the default response parser never raises: whenever a fetch succeeded,
\* whatever the shape of the body's data and links, the call that made it
\* returns (parsing completed).
C25_DefaultParserNeverRaises ==
    [][ (fetchCalls' = fetchCalls + 1 /\ lastFetch'.result.ok)
          => lastCall'.error = "" ]_vars

\* The Page State the generic pager holds once its parser returned parsed for
\* the latest fetch.
StoredFrom(parsed) ==
    /\ response = lastFetch.result.body
    /\ data = OrEmpty(parsed.items)
    /\ _hasNextPage = parsed.hasNextPage
    /\ _hasPreviousPage = parsed.hasPreviousPage
    /\ nextRequest = parsed.nextRequest
    /\ previousRequest = parsed.previousRequest

\* C26: the parser a generic pager was created with (the default one when none
\* was supplied) is the one applied to the initial response and to every later
\* one: for each successful fetch it is invoked exactly once, with the request
\* sent and the response received, and Page State holds what it returned; for a
\* failed fetch it is not invoked.
C26_PagerUsesItsParser ==
    /\ (impl = "generic" /\ lastFetch.result.ok)
         => /\ parserCalls = <<[parser |-> parser, request |-> lastFetch.request,
                                response |-> lastFetch.result.body]>>
            /\ StoredFrom(ApplyParser(parser, lastFetch.request, lastFetch.result.body))
    /\ (fetchCalls > 0 /\ ~lastFetch.result.ok) => parserCalls = <<>>

\* C26 witness: a pager created with the caller's first-link parser has moved to
\* the second page, and what it holds about a next page is not what the default
\* parser makes of the same response.
C26_Witness ==
    /\ impl = "generic" /\ parser = "firstLink"
    /\ lastCall = Returned("getNextPage")
    /\ fetchCalls = 2
    /\ Len(parserCalls) = 1 /\ parserCalls[1].parser = "firstLink"
    /\ parserCalls[1].request.url = "/items?page=2"
    /\ ApplyParser("default", lastFetch.request, lastFetch.result.body).hasNextPage
         # _hasNextPage

\* The page fetches that have been sent and have not come back.
FetchesInFlight == Cardinality({i \in 1..Len(calls) : calls[i].stage = "fetch"})

ParsedBy(request, body) ==
    IF impl = "http" THEN parseHttpResponse(request, body)
    ELSE ApplyParser(parser, request, body)

\* All of Page State is what one response, received for request, gives.
DerivedFrom(request, res) ==
    LET parsed == ParsedBy(request, res.body)
    IN  /\ response = res.body
        /\ rawResponse = res.rawResponse
        /\ data = IF impl = "http" THEN parsed.items ELSE OrEmpty(parsed.items)
        /\ _hasNextPage = parsed.hasNextPage
        /\ _hasPreviousPage = parsed.hasPreviousPage
        /\ nextRequest = parsed.nextRequest
        /\ previousRequest = parsed.previousRequest

\* The requests sent so far for this pager: the initial one and those of its calls.
RequestsSent ==
    ({initialRequest} \cup {calls[i].sent : i \in 1..Len(calls)}) \ {NoRequest}

\* C28: Page State is replaced atomically: at every point at which a call is
\* suspended, under every interleaving of the calls in flight, the seven fields
\* all derive from one response to one request sent; fields of two pages are never
\* seen together.
C28_PageStateFromOneResponse ==
    impl # "none"
        => \E r \in RequestsSent : DerivedFrom(r, OkResponse(response, r))

\* C28 witness: of two getNextPage calls in flight together the first has written
\* its page and returned while the second is suspended between its fetch and its
\* own assignments.
C28_Witness ==
    /\ Len(calls) = 2
    /\ calls[1].op = "getNextPage" /\ calls[2].op = "getNextPage"
    /\ 1 \in calls[2].overlaps
    /\ calls[1].stage = "returned"
    /\ calls[2].stage = "parse"
    /\ response = calls[1].res.body
    /\ response # server.pages[server.start]

\* Two getNextPage calls, the second started while the first was in flight.
TwoUnawaitedNextCalls ==
    /\ Len(calls) = 2
    /\ calls[1].op = "getNextPage" /\ calls[2].op = "getNextPage"
    /\ 1 \in calls[2].overlaps

\* The call that settled last.
LastSettled == CHOOSE i \in 1..Len(calls) : calls[i].settled = Len(calls)

\* C29: of two getNextPage calls the second of which is started while the first
\* is in flight, both pass the availability check and take the same stored
\* follow-up request, and each sends a fetch for its URL; once both have returned
\* the pager is one page on from where it was, not two, and Page State is what
\* the call that returned last made of its own response.
C29_UnawaitedCallsFetchSamePage ==
    TwoUnawaitedNextCalls
        => /\ calls[1].request # NoRequest
           /\ calls[2].request = calls[1].request
           /\ \A i \in 1..2 : calls[i].sent # NoRequest
                                  => calls[i].sent.url = calls[1].request.url
           /\ (calls[1].stage = "returned" /\ calls[2].stage = "returned")
                => /\ response = server.pages[server.start + 1]
                   /\ DerivedFrom(calls[LastSettled].sent, calls[LastSettled].res)

\* C29 witness: on the first of three pages two getNextPage calls were started
\* together, their requests refreshed with different tokens; the second returned
\* first, the first last, and the pager is on the second page holding the follow-up
\* request made from the first call's request.
C29_Witness ==
    /\ TwoUnawaitedNextCalls
    /\ impl = "http" /\ authProvider
    /\ server.start = 1 /\ Len(server.pages) = 3
    /\ calls[1].stage = "returned" /\ calls[2].stage = "returned"
    /\ calls[1].settled = 2 /\ calls[2].settled = 1
    /\ calls[1].sent # calls[2].sent
    /\ fetchCalls = 3
    /\ response = server.pages[2]
    /\ nextRequest = parseHttpResponse(calls[1].sent, response).nextRequest
    /\ nextRequest # parseHttpResponse(calls[2].sent, response).nextRequest

\* C30: the item sequence keeps nothing but the batch it is yielding. A
\* getNextPage or getPreviousPage made between two pulls leaves the sequence and
\* what it has yielded as they were; the sequence makes its own transition only
\* with its batch exhausted, and then fetches the URL of the next follow-up request
\* stored in Page State at that moment and goes on with the items of that page.
C30_SequenceFollowsPageState ==
    [][ /\ \A op \in {"getNextPage", "getPreviousPage"} :
              (CallStep(op) /\ iter # NoIter) => (iter' = iter /\ yielded' = yielded)
        /\ (lastCall'.op = "iterMessages" /\ fetchCalls' = fetchCalls + 1)
              => /\ iter.pos = Len(iter.batch)
                 /\ nextRequest # NoRequest
                 /\ lastFetch'.request.url = nextRequest.url
                 /\ lastCall'.error = "" => (iter'.batch = data' /\ iter'.pos = 0) ]_vars

\* C30 witness: a sequence started on the second page yielded one of its items;
\* the caller then went back to the first page; the sequence finished its batch
\* and, following the first page's next link, has yielded the second page's first
\* item a second time.
C30_Witness ==
    /\ server.start = 2
    /\ iter # NoIter /\ iter.state = "suspended"
    /\ yielded = <<"item-of-page-2", "repeated-item", "item-of-page-2">>
    /\ fetchCalls = 3
    /\ lastCall = Returned("iterMessages")
    /\ response = server.pages[2]

\* The headers of a request other than the authorization header.
NonAuthHeaders(request) ==
    [k \in {h \in DOMAIN request.headers : toLowerCase(h) # "authorization"}
        |-> request.headers[k]]

\* The latest call was a transition of direction op whose fetch failed.
FetchOfFailed(op) ==
    /\ lastCall.op = op
    /\ fetchCalls > 0 /\ ~lastFetch.result.ok
    /\ lastCall.error = (IF impl = "http" THEN "Failed to fetch page: " ELSE "")
                            \o FailureReason(lastFetch.result.error)

\* C31: a stored follow-up request is never changed in place. A transition whose
\* fetch fails leaves both stored requests as they were, and the call that
\* follows a failed transition in the same direction sends a request with the URL,
\* method, body, timeout, query parameters and non-auth headers of the failed
\* attempt.
C31_StoredRequestNotMutated ==
    [][ \A op \in {"getNextPage", "getPreviousPage"} :
          /\ (CallStep(op) /\ fetchCalls' = fetchCalls + 1 /\ ~lastFetch'.result.ok)
                => UNCHANGED <<nextRequest, previousRequest>>
          /\ (FetchOfFailed(op) /\ CallStep(op) /\ fetchCalls' = fetchCalls + 1)
                => /\ lastFetch'.request.url = lastFetch.request.url
                   /\ lastFetch'.request.method = lastFetch.request.method
                   /\ lastFetch'.request.body = lastFetch.request.body
                   /\ lastFetch'.request.timeoutMs = lastFetch.request.timeoutMs
                   /\ lastFetch'.request.queryParameters
                        = lastFetch.request.queryParameters
                   /\ NonAuthHeaders(lastFetch'.request)
                        = NonAuthHeaders(lastFetch.request) ]_vars

\* C31 witness: with an auth provider, two getNextPage calls in a row failed at
\* the fetch; the pager is still on the page it was created on, the second
\* request went out with the second token, and the stored next request carries no
\* refreshed header.
C31_Witness ==
    /\ impl = "http" /\ authProvider
    /\ authCalls = 2 /\ fetchCalls = 3
    /\ rawResponse.url = "/items"
    /\ lastCall = Threw("getNextPage", "Failed to fetch page: HTTP 500")
    /\ initialRequest.method = "POST"
    /\ "x-custom-header" \in DOMAIN lastFetch.request.headers
    /\ lastFetch.request.headers["authorization"] = "Bearer token-2"
    /\ lastFetch.request.headers["x-custom-header"] = "value"
    /\ nextRequest # NoRequest
    /\ "authorization" \notin DOMAIN nextRequest.headers
    /\ lastFetch.request.url = nextRequest.url

\* Where call i has got to ("none": not started).
StageOf(c, i) == IF i <= Len(c) THEN c[i].stage ELSE "none"

\* The moves of a transition from one step to the next.
StepOrder ==
    { <<"none", "auth">>, <<"none", "fetch">>, <<"none", "threw">>,
      <<"auth", "fetch">>, <<"auth", "threw">>,
      <<"fetch", "parse">>, <<"fetch", "threw">>,
      <<"parse", "returned">>, <<"parse", "threw">> }

\* C32: a transition goes through availability check, auth refresh (if an auth
\* provider is configured), fetch, parse and state update in this order. A failed
\* check asks no auth provider and sends nothing; the fetch is sent only after a
\* successful refresh; the parser is called only for a successful fetch; Page State
\* changes only in the step that ends the await of the parser; a step that fails
\* ends the call with nothing of the later steps done.
C32_StepsInOrder ==
    [][ impl # "none" =>
          /\ \A i \in 1..Len(calls') :
                LET a == StageOf(calls, i)
                    b == StageOf(calls', i)
                IN  a # b =>
                      /\ <<a, b>> \in StepOrder
                      /\ (a = "none" /\ b = "threw")
                            => /\ ~AvailabilityPasses(calls'[i].op)
                               /\ lastCall'.error \in UsageErrors
                               /\ UNCHANGED <<authCalls, fetchCalls, parserCalls, pageState>>
                      /\ (a = "none" /\ b # "threw")
                            => /\ AvailabilityPasses(calls'[i].op)
                               /\ b = "auth" <=> (impl = "http" /\ authProvider)
                      /\ b = "auth"
                            => /\ authCalls' = authCalls + 1
                               /\ UNCHANGED <<fetchCalls, parserCalls, pageState>>
                      /\ b = "fetch"
                            => /\ fetchCalls' = fetchCalls + 1
                               /\ a = "auth" => lastAuth'.ok
                               /\ UNCHANGED <<parserCalls, pageState>>
                      /\ (a = "auth" /\ b = "threw")
                            => /\ ~lastAuth'.ok
                               /\ UNCHANGED <<fetchCalls, parserCalls, pageState>>
                      /\ b = "parse"
                            => /\ lastFetch'.result.ok
                               /\ Len(parserCalls') = 1
                               /\ UNCHANGED <<fetchCalls, pageState>>
                      /\ (a = "fetch" /\ b = "threw")
                            => /\ ~lastFetch'.result.ok
                               /\ parserCalls' = <<>>
                               /\ UNCHANGED <<fetchCalls, pageState>>
                      /\ a = "parse" => UNCHANGED <<fetchCalls, authCalls, parserCalls>>
          /\ pageState' # pageState
                => \E i \in 1..Len(calls) : /\ calls[i].stage = "parse"
                                            /\ calls'[i].stage = "returned" ]_vars

\* C32 witness: a getNextPage of a pager with an auth provider has gone through
\* every step: one auth refresh, one fetch with the refreshed header, one parser
\* call, and the pager is on the page fetched.
C32_Witness ==
    /\ impl = "http" /\ authProvider
    /\ Len(calls) = 1
    /\ calls[1].op = "getNextPage" /\ calls[1].stage = "returned"
    /\ authCalls = 1 /\ fetchCalls = 2
    /\ lastAuth.ok
    /\ "authorization" \in DOMAIN calls[1].sent.headers
    /\ Len(parserCalls) = 1 /\ parserCalls[1].request = calls[1].sent
    /\ response = calls[1].res.body
    /\ rawResponse.url = calls[1].request.url

\* a is the beginning of b.
IsPrefix(a, b) == Len(a) <= Len(b) /\ SubSeq(b, 1, Len(a)) = a

\* The page the pager was on when the item sequence was created, the sequence's
\* own fetches having moved it on since.
StartPage == CurrentPageIndex - iter.fetches

\* C33: an item sequence created on page k begins with the items of page k; each
\* of its fetches goes to the page the current page's next link names; what it has
\* yielded is always a beginning of the items of pages k, k+1, ... in order, and all
\* of them when it is done, so that nothing of a page before k is yielded. A
\* sequence created after an earlier one was consumed to its end makes no fetch and
\* yields the items of the last page only.
C33_SequenceGoesForwardOnly ==
    /\ [][ /\ (iter.state = "created" /\ iter'.state = "running")
                => (iter'.batch = data /\ UNCHANGED <<fetchCalls, pageState>>)
           /\ (lastCall'.op = "iterMessages" /\ fetchCalls' = fetchCalls + 1)
                => /\ CurrentPageIndex < Len(server.pages)
                   /\ lastFetch'.request.url = PageUrl(CurrentPageIndex + 1)
                   /\ response' = server.pages[CurrentPageIndex + 1] ]_vars
    /\ [](iter # NoIter
            => /\ StartPage >= 1
               /\ IsPrefix(yielded, ConcatItems(server.pages, StartPage))
               /\ iter.state = "done"
                    => /\ yielded = ConcatItems(server.pages, StartPage)
                       /\ CurrentPageIndex = Len(server.pages)
               /\ "consumed" \in DOMAIN iter
                    => /\ iter.fetches = 0
                       /\ StartPage = Len(server.pages)
                       /\ IsPrefix(yielded, OrEmpty(server.pages[Len(server.pages)].data)))

\* C33 witness: on a chain of two pages a first sequence yielded both pages with
\* one fetch; a second sequence created afterwards is done, has yielded the second
\* page's items only and has not fetched.
C33_Witness ==
    /\ server.start = 1 /\ Len(server.pages) = 2
    /\ "consumed" \in DOMAIN iter
    /\ iter.consumed = ConcatItems(server.pages, 1)
    /\ iter.state = "done"
    /\ yielded = OrEmpty(server.pages[2].data)
    /\ iter.fetches = 0
    /\ fetchCalls = 2

\* The j-th item a full consumption of a cycle of pages yields, from page start
\* on, two items a page.
CycleItem(j) ==
    LET n == Len(server.pages)
        page == ((server.start - 1 + ((j - 1) \div 2)) % n) + 1
    IN  server.pages[page].data.arr[((j - 1) % 2) + 1]

\* C34: when the next links form a cycle, every page has a next page, so the item
\* sequence never comes to its end; it has yielded the pages' items round and
\* round, those of revisited pages again, and every batch after the first cost one
\* fetch of its own.
C34_CycleNeverEnds ==
    (server.kind = "chain" /\ server.cyclic /\ impl # "none" /\ DefaultParsing)
        => /\ hasNextPage /\ nextRequest # NoRequest
           /\ iter.state # "done"
           /\ IteratedFromConstruction
                => /\ \A j \in 1..Len(yielded) : yielded[j] = CycleItem(j)
                   /\ Len(yielded) <= 2 * (iter.fetches + 1)
                   /\ Len(yielded) > 2 => iter.fetches >= 1

\* C34 witness: on a cycle of one page the sequence, having yielded the page's
\* items, fetched the page again and has yielded its first item a second time.
C34_Witness ==
    /\ server.kind = "chain" /\ server.cyclic /\ Len(server.pages) = 1
    /\ impl = "http"
    /\ IteratedFromConstruction
    /\ iter.fetches = 1 /\ fetchCalls = 2
    /\ lastFetch.request.url = "/items?page=1"
    /\ yielded = <<"item-of-page-1", "repeated-item", "item-of-page-1">>

\* The URL and the query parameters of a follow-up request (none: itself).
UrlAndQuery(request) ==
    IF request = NoRequest THEN NoRequest
    ELSE [url |-> request.url, queryParameters |-> request.queryParameters]

\* C35: for the request sent and the body received, parseHttpResponse and
\* parsePayrocResponse return the same items, the same two flags and follow-up
\* requests with the same URL and the same query parameters.
C35_ParsersAgree ==
    (fetchCalls > 0 /\ lastFetch.result.ok)
        => LET http == parseHttpResponse(lastFetch.request, lastFetch.result.body)
               generic == parsePayrocResponse(lastFetch.request, lastFetch.result.body)
           IN  /\ http.items = OrEmpty(generic.items)
               /\ http.hasNextPage = generic.hasNextPage
               /\ http.hasPreviousPage = generic.hasPreviousPage
               /\ UrlAndQuery(http.nextRequest) = UrlAndQuery(generic.nextRequest)
               /\ UrlAndQuery(http.previousRequest) = UrlAndQuery(generic.previousRequest)

\* C36: with default parsing, when the response held carries one or more links of
\* a relation with a non-empty string href, the follow-up request stored for that
\* relation has the href of the first such link, in array order, as its URL,
\* whatever links of the same relation with an unusable href come before it.
C36_FirstValidLinkWins ==
    (impl # "none" /\ DefaultParsing)
        => /\ HasLink(response, NEXT_REL)
                => /\ nextRequest # NoRequest
                   /\ nextRequest.url = FirstHref(response, NEXT_REL)
           /\ HasLink(response, PREVIOUS_REL)
                => /\ previousRequest # NoRequest
                   /\ previousRequest.url = FirstHref(response, PREVIOUS_REL)

\* The latest fetch of a pager succeeded and its parser failed on the body.
ParserFailedOnFetch ==
    /\ impl # "none"
    /\ fetchCalls > 0
    /\ lastFetch.result.ok
    /\ ParserRaised(ParsedBy(lastFetch.request, lastFetch.result.body))

\* C37: when a getNextPage or getPreviousPage call fetches a page successfully and
\* the pager's parser, the default one or a caller-supplied one, fails on that
\* response, the call fails with the parser's error and every field of the page
\* state keeps the value it had before the call, although the fetch was made.
C37_ParserFailureKeepsPageState ==
    [][ (impl # "none" /\ fetchCalls' = fetchCalls + 1 /\ ParserFailedOnFetch')
          => /\ lastCall'.op \in {"getNextPage", "getPreviousPage"}
             /\ lastCall'.error = ParsedBy(lastFetch'.request, lastFetch'.result.body).threw
             /\ UNCHANGED pageState ]_vars

\* A caller-supplied parser failed on the page getNextPage fetched: the call
\* failed and the pager still holds the page it had, not the fetched body.
C37_Witness ==
    /\ ParserFailedOnFetch
    /\ parser = "firstLink"
    /\ lastCall.op = "getNextPage"
    /\ lastCall.error # ""
    /\ fetchCalls = 2
    /\ response # lastFetch.result.body
    /\ lastFetch.request = nextRequest

\* The fetches an item sequence has made, and those of them that succeeded: a
\* sequence that failed did so on its last fetch.
FetchesOf(it) == IF it = NoIter THEN 0 ELSE it.fetches
SuccessfulFetchesOf(it) ==
    IF it = NoIter THEN 0
    ELSE IF it.state = "failed" THEN it.fetches - 1 ELSE it.fetches

\* The page of the listing the pager holds, and the pages after the first one.
PageHeld == PageIndex(rawResponse.url)
PagesAfterStart == Len(server.pages) - server.start

\* C38 as stated: two item sequences of one pager, each pull awaited before the
\* next, together issue no more fetches than there are pages after the starting
\* page, every fetch moving the pager one page on.
C38_SharedFetchesBounded ==
    impl # "none"
        => /\ FetchesOf(iter) + FetchesOf(otherIter) <= PagesAfterStart
           /\ PageHeld = server.start + FetchesOf(iter) + FetchesOf(otherIter)

\* C38, amended: the two sequences move the one page state, so the page held is
\* the starting page plus the successful fetches of both, these never exceed the
\* number of pages after the starting page, and as long as no fetch has failed
\* neither does the number of fetches issued; a failed fetch ends its sequence and
\* leaves the page state in place.
C38_SharedSuccessfulFetchesBounded ==
    impl # "none"
        => /\ PageHeld = server.start + SuccessfulFetchesOf(iter)
                                       + SuccessfulFetchesOf(otherIter)
           /\ SuccessfulFetchesOf(iter) + SuccessfulFetchesOf(otherIter) <= PagesAfterStart
           /\ ("failed" \notin {iter.state, otherIter.state})
                 => FetchesOf(iter) + FetchesOf(otherIter) <= PagesAfterStart

\* Two sequences pulled in turn over three pages, no fetch failing: the first
\* fetched page 2 and the second page 3, both are exhausted, and neither was given
\* the item that only the page fetched by the other one has.
C38_Witness ==
    /\ impl # "none"
    /\ Len(server.pages) = 3
    /\ server.start = 1
    /\ iter.state = "done"
    /\ otherIter.state = "done"
    /\ iter.fetches = 1
    /\ otherIter.fetches = 1
    /\ yielded = server.pages[1].data.arr \o server.pages[2].data.arr
    /\ otherIter.yielded = server.pages[1].data.arr \o server.pages[3].data.arr
    /\ \A j \in 1..Len(yielded) : yielded[j] # server.pages[3].data.arr[1]
    /\ \A j \in 1..Len(otherIter.yielded) :
          otherIter.yielded[j] # server.pages[2].data.arr[1]

====
